---------------------------- MODULE Spec2Model ----------------------------
(***************************************************************************)
(* A model of the binary serialization framework of MVUtils: the Saver /   *)
(* Loader implementation for ByteBuffer, the Savable implementations of    *)
(* src/src/save.rs and the code the derive macro of src/Proc generates.    *)
(*                                                                         *)
(* Integers of the program are bit sequences, least significant bit first, *)
(* of the width of their type, so 64-bit values keep their width.  Bytes   *)
(* in the buffer are numbers 0..255.                                       *)
(***************************************************************************)
EXTENDS Integers, Sequences, FiniteSets, TLC

VARIABLES data, rpos, wpos, endian, log, next, last

\* the ByteBuffer sessions
buffer == <<data, rpos, wpos, endian, log, next, last>>

\* a State shared by threads: the contents and the version counter behind
\* the Arc, the holder of the RwLock's write lock, and per thread its place
\* in its code, the local_version of its clone and the counter value it
\* holds while incrementing; seen and dropped record what a reader last read
\* and how many write guards were dropped
VARIABLES contents, version, writer, pc, local_version, tmp, seen, dropped

state == <<contents, version, writer, pc, local_version, tmp, seen, dropped>>

\* an InitOnce or CreateOnce shared by threads: which of the two it is, its
\* init_called flag, its Once, its value slot, and per calling thread its
\* place in try_init / try_create and the calls it has made; oks, errs and
\* ran count the calls that returned Ok, that returned AlreadyInitialized
\* and the closures that were started; obs is what the observing thread
\* last got from initialized() / created() or Deref
VARIABLES cellKind, init_called, once, slot, at, calls, oks, errs, ran, obs

cell == <<cellKind, init_called, once, slot, at, calls, oks, errs, ran, obs>>

\* the parallelizer: the THRESHOLD static and the outcome of the last
\* run_parallel with its input
VARIABLES THRESHOLD, run

par == <<THRESHOLD, run>>

\* the target of the last Savable2::load_into, before and after
VARIABLES target

vars == <<buffer, state, cell, par, target>>

\* no State in use
NoState == /\ contents = 0 /\ version = 0 /\ writer = 0 /\ pc = <<>>
           /\ local_version = <<>> /\ tmp = <<>> /\ seen = <<>> /\ dropped = 0

\* no cell in use
NoCell == /\ cellKind = "none" /\ init_called = FALSE /\ once = "new" /\ slot = "unset"
          /\ at = <<>> /\ calls = <<>> /\ oks = 0 /\ errs = 0 /\ ran = 0
          /\ obs = <<"none", FALSE, "new", "unset">>

\* the parallelizer as the program starts: `lazy! { THRESHOLD = 5 }`
NoPar == THRESHOLD = 5 /\ run = <<>>

NoTarget == target = <<>>

\* no buffer in use
NoBuffer == /\ data = <<>> /\ rpos = 0 /\ wpos = 0 /\ endian = "BE" /\ log = <<>>
            /\ next = 1

\* everything but the ByteBuffer sessions
others == <<state, cell, par, target>>

\* everything but the State
notState == <<buffer, cell, par, target>>

---------------------------------------------------------------------------
(* Bounds of the model.                                                    *)

\* the number of values one session saves into its buffer
MaxOps == 2

\* the number of generated types (struct or enum shapes) one session saves
MaxShapes == 1

\* the number of fields the generated types of one session declare in all
MaxFields == 3

---------------------------------------------------------------------------
(* Bit sequences.                                                          *)

Zero(w) == [i \in 1..w |-> 0]

AllOnes(w) == [i \in 1..w |-> 1]

\* n < 2^31 as a w-bit value (bits above w are cut, as an `as` cast cuts them)
BitsOfNat(n, w) == [i \in 1..w |-> IF i <= 31 THEN (n \div (2 ^ (i - 1))) % 2 ELSE 0]

RECURSIVE NatOfBits(_)
\* the number a short bit sequence (at most 30 bits) stands for: its lower
\* half plus its upper half shifted up
NatOfBits(b) ==
    IF Len(b) = 0 THEN 0
    ELSE IF Len(b) = 1 THEN b[1]
    ELSE NatOfBits(SubSeq(b, 1, Len(b) \div 2))
             + (2 ^ (Len(b) \div 2)) * NatOfBits(SubSeq(b, (Len(b) \div 2) + 1, Len(b)))

\* b as w bits: truncating or zero-extending `as` cast between unsigned types
Cast(b, w) == [i \in 1..w |-> IF i <= Len(b) THEN b[i] ELSE 0]

\* b << k on a fixed width: the bits shifted out at the top are lost
Shl(b, k) == [i \in 1..Len(b) |-> IF i > k THEN b[i - k] ELSE 0]

\* logical b >> k (unsigned types)
Shr(b, k) == [i \in 1..Len(b) |-> IF i + k <= Len(b) THEN b[i + k] ELSE 0]

\* arithmetic b >> k (signed types): the sign bit fills from the top
Sar(b, k) == [i \in 1..Len(b) |-> IF i + k <= Len(b) THEN b[i + k] ELSE b[Len(b)]]

BitOr(a, b) == [i \in 1..Len(a) |-> IF a[i] = 1 \/ b[i] = 1 THEN 1 ELSE 0]

BitXor(a, b) == [i \in 1..Len(a) |-> IF a[i] # b[i] THEN 1 ELSE 0]

BitAnd(a, b) == [i \in 1..Len(a) |-> IF a[i] = 1 /\ b[i] = 1 THEN 1 ELSE 0]

\* two's complement negation of 0 or 1: -(x & 1)
NegBit(bit, w) == IF bit = 1 THEN AllOnes(w) ELSE Zero(w)

Reverse(s) == [i \in 1..Len(s) |-> s[Len(s) + 1 - i]]

---------------------------------------------------------------------------
(* The byte layout of fixed-width values.                                  *)

\* the bytes of a value, lowest byte first
to_le_bytes(b) == [k \in 1..(Len(b) \div 8) |-> NatOfBits(SubSeq(b, 8 * (k - 1) + 1, 8 * k))]

\* the value of bytes given lowest byte first
from_le_bytes(bs) == [i \in 1..(8 * Len(bs)) |-> (bs[((i - 1) \div 8) + 1] \div (2 ^ ((i - 1) % 8))) % 2]

\* ByteBuffer::write_u16 .. write_f64 under the buffer's endianness
EncodeFixed(b, e) == IF e = "LE" THEN to_le_bytes(b) ELSE Reverse(to_le_bytes(b))

\* ByteBuffer::read_u16 .. read_f64 under the buffer's endianness
DecodeFixed(bs, e) == IF e = "LE" THEN from_le_bytes(bs) ELSE from_le_bytes(Reverse(bs))


---------------------------------------------------------------------------
(* Saver and Loader for ByteBuffer.  A buffer is its bytes `d`, its write  *)
(* cursor and its read cursor; a pop returns [st, val, pos]: the outcome   *)
(* ("ok", "err", or "panic" when the call does not return), the value and  *)
(* the read cursor the call leaves behind.                                 *)

Ok(v, p) == [st |-> "ok", val |-> v, pos |-> p]

Err(p) == [st |-> "err", val |-> <<>>, pos |-> p]

Panic(p) == [st |-> "panic", val |-> <<>>, pos |-> p]

\* Option::map / Result::map on the outcome of a pop or a load
MapOk(r, F(_)) == IF r.st = "ok" THEN Ok(F(r.val), r.pos) ELSE r

\* the `?` operator: the rest K of the function runs on a success only
Try(r, K(_)) == IF r.st = "ok" THEN K(r) ELSE r

\* Saver::push_bytes: the bytes overwrite the buffer from the write cursor on
\* and extend it where they reach past its end
push_bytes(d, wp, bs) == [i \in 1..(IF wp + Len(bs) > Len(d) THEN wp + Len(bs) ELSE Len(d)) |->
                            IF i > wp /\ i <= wp + Len(bs) THEN bs[i - wp] ELSE d[i]]

\* Loader::pop_bytes: fails, leaving the cursor, when fewer bytes remain
pop_bytes(d, pos, amount) == IF pos + amount > Len(d) THEN Err(pos)
                             ELSE Ok(SubSeq(d, pos + 1, pos + amount), pos + amount)

\* Loader::pop_to_end
pop_to_end(d, pos) == pop_bytes(d, pos, Len(d) - pos)

\* Saver::push_bool
push_bool(v) == <<IF v THEN 1 ELSE 0>>

\* Loader::pop_bool
pop_bool(d, pos) == MapOk(pop_bytes(d, pos, 1), LAMBDA v : v[1] # 0)

\* Saver::push_u8 .. push_f64 for a value of w bits
push_fixed(v, e) == EncodeFixed(v, e)

\* a pop that reads in little-endian whatever the buffer's endianness
pop_fixed_le(d, pos, w, e) == MapOk(pop_bytes(d, pos, w \div 8), LAMBDA v : DecodeFixed(v, "LE"))

\* Loader::pop_u8 .. pop_f64 for a type of w bits
pop_fixed(d, pos, w, e) == MapOk(pop_bytes(d, pos, w \div 8), LAMBDA v : DecodeFixed(v, e))

\* Loader::peek_u8 .. peek_f64: the pop, with the read cursor set back
\* a peek that does not put the read cursor back
peek_fixed_advancing(d, pos, w, e) == pop_fixed(d, pos, w, e)

peek_fixed(d, pos, w, e) == [pop_fixed(d, pos, w, e) EXCEPT !.pos = pos]

\* peek_bytes, peek_bool: the pop, and set_rpos(rpos) whatever it returned
peek_bytes(d, pos, amount) == [pop_bytes(d, pos, amount) EXCEPT !.pos = pos]

peek_bool(d, pos) == [pop_bool(d, pos) EXCEPT !.pos = pos]

\* the width in bits of a fixed-width primitive type
Width(k) == CASE k \in {"u8", "i8"} -> 8
              [] k \in {"u16", "i16"} -> 16
              [] k \in {"u32", "i32", "f32"} -> 32
              [] k \in {"u64", "i64", "f64"} -> 64

FixedKinds == {"u8", "u16", "u32", "u64", "i8", "i16", "i32", "i64", "f32", "f64"}

\* impl_savable_primitive!: save
prim_save(k, v, e) == IF k = "bool" THEN push_bool(v) ELSE push_fixed(v, e)

\* impl_savable_primitive!: load
prim_load(k, d, pos, e) == IF k = "bool" THEN pop_bool(d, pos) ELSE pop_fixed(d, pos, Width(k), e)

---------------------------------------------------------------------------
(* Strings: String::from_utf8 accepts exactly the well-formed UTF-8.       *)

\* the length of the sequence the lead byte b starts, 0 when b starts none
Utf8Len(b) == CASE b <= 127 -> 1
                [] b >= 194 /\ b <= 223 -> 2
                [] b >= 224 /\ b <= 239 -> 3
                [] b >= 240 /\ b <= 244 -> 4
                [] OTHER -> 0

\* the j-th byte after the lead byte b is a continuation byte; the first one
\* is narrowed after E0, ED, F0 and F4 (overlong forms, surrogates, > 10FFFF)
Utf8Cont(b, j, c) ==
    /\ c >= (IF j = 1 /\ b = 224 THEN 160 ELSE IF j = 1 /\ b = 240 THEN 144 ELSE 128)
    /\ c <= (IF j = 1 /\ b = 237 THEN 159 ELSE IF j = 1 /\ b = 244 THEN 143 ELSE 191)

\* String::from_utf8 succeeds: every byte is a lead byte followed by its
\* continuation bytes, or a continuation byte of a lead byte before it
Utf8Valid(bs) ==
    \A i \in 1..Len(bs) :
        IF bs[i] >= 128 /\ bs[i] <= 191
        THEN \E j \in 1..3 : i - j >= 1 /\ Utf8Len(bs[i - j]) > j
        ELSE /\ Utf8Len(bs[i]) > 0
             /\ i + Utf8Len(bs[i]) - 1 <= Len(bs)
             /\ \A j \in 1..(Utf8Len(bs[i]) - 1) : Utf8Cont(bs[i], j, bs[i + j])

\* Saver::push_string: a 32-bit length, then the bytes
push_string(s, e) == push_fixed(BitsOfNat(Len(s), 32), e) \o s

\* the length a 32-bit prefix announces, or -1 when no buffer of the model holds it
SmallLen(b) == IF \E i \in 1..Len(b) : i > 24 /\ b[i] = 1 THEN -1 ELSE NatOfBits(SubSeq(b, 1, 24))

\* Loader::pop_string: the length, the bytes, then the UTF-8 check; each step
\* that succeeded has consumed its bytes when a later one fails
pop_string(d, pos, e) ==
    Try(pop_fixed(d, pos, 32, e), LAMBDA l :
        IF SmallLen(l.val) < 0 THEN Err(l.pos)
        ELSE Try(pop_bytes(d, l.pos, SmallLen(l.val)), LAMBDA r :
                 IF Utf8Valid(r.val) THEN r ELSE Err(r.pos)))

\* custom::string8_save: the length, at most 255, in one byte, then that
\* many bytes of the string
string8_save(s) ==
    <<IF Len(s) < 255 THEN Len(s) ELSE 255>> \o (IF Len(s) > 255 THEN SubSeq(s, 1, 255) ELSE s)

\* custom::string8_load: the length byte, the bytes, then the UTF-8 check
string8_load(d, pos, e) ==
    Try(pop_fixed(d, pos, 8, e), LAMBDA l :
        Try(pop_bytes(d, l.pos, NatOfBits(l.val)), LAMBDA r :
            IF Utf8Valid(r.val) THEN r ELSE Err(r.pos)))

\* custom::string16_save, string16_load: the same behind a two-byte length
string16_save(s, e) ==
    push_fixed(BitsOfNat(IF Len(s) < 65535 THEN Len(s) ELSE 65535, 16), e)
        \o (IF Len(s) > 65535 THEN SubSeq(s, 1, 65535) ELSE s)

string16_load(d, pos, e) ==
    Try(pop_fixed(d, pos, 16, e), LAMBDA l :
        Try(pop_bytes(d, l.pos, NatOfBits(l.val)), LAMBDA r :
            IF Utf8Valid(r.val) THEN r ELSE Err(r.pos)))

---------------------------------------------------------------------------
(* Varints: usize, isize and the custom varint codecs.                     *)

\* size_of::<usize>() * 8 on the 64-bit targets the model describes
UsizeBits == 64

\* the width of the accumulator of custom::varint_load
VarintBits == 64

RECURSIVE EncodeLoopEarly(_)
\* the loop with the continuation bit decided before the shift
EncodeLoopEarly(value) ==
    IF value # Zero(Len(value))
    THEN <<NatOfBits(SubSeq(value, 1, 7)) + 128>> \o EncodeLoopEarly(Shr(value, 7))
    ELSE <<NatOfBits(SubSeq(value, 1, 7))>>

RECURSIVE EncodeLoop(_)
\* the loop of usize::save, isize::save, varint_save and varint_signed_save:
\* the low seven bits, the high bit set while a rest remains
EncodeLoop(value) ==
    LET byte == NatOfBits(SubSeq(value, 1, 7))
        rest == Shr(value, 7)
    IN  IF rest # Zero(Len(value)) THEN <<byte + 128>> \o EncodeLoop(rest) ELSE <<byte>>

\* result |= ((byte & 0x7F) as uN) << shift
Accumulate(result, byte, shift) == BitOr(result, Shl(BitsOfNat(byte % 128, Len(result)), shift))

RECURSIVE DecodeLoop(_, _, _, _)
\* the loop of usize::load, isize::load, varint_load and varint_signed_load:
\* an error once shift reaches the width, else the next byte's seven bits are
\* shifted in (bits shifted past the width are dropped by <<)
DecodeLoop(d, pos, result, shift) ==
    IF shift >= Len(result) THEN Err(pos)
    ELSE Try(pop_fixed(d, pos, 8, "LE"), LAMBDA r :
             IF NatOfBits(r.val) \div 128 = 0 THEN Ok(Accumulate(result, NatOfBits(r.val), shift), r.pos)
             ELSE DecodeLoop(d, r.pos, Accumulate(result, NatOfBits(r.val), shift), shift + 7))

\* the zigzag with a logical shift right
ZigZagLogical(x) == BitXor(Shl(x, 1), Shr(x, Len(x) - 1))

\* (x << 1) ^ (x >> (bits - 1)), the shift right being arithmetic
ZigZag(x) == BitXor(Shl(x, 1), Sar(x, Len(x) - 1))

\* (r >> 1) ^ -(r & 1)
UnZigZag(r) == BitXor(Shr(r, 1), NegBit(r[1], Len(r)))

usize_save(v) == EncodeLoop(v)

usize_load(d, pos) == DecodeLoop(d, pos, Zero(UsizeBits), 0)

isize_save(v) == EncodeLoop(ZigZag(v))

isize_load(d, pos) == MapOk(DecodeLoop(d, pos, Zero(UsizeBits), 0), UnZigZag)

varint_save(v) == EncodeLoop(v)

varint_load(d, pos) == DecodeLoop(d, pos, Zero(VarintBits), 0)

varint_signed_save(v) == EncodeLoop(ZigZag(v))

varint_signed_load(d, pos) == MapOk(DecodeLoop(d, pos, Zero(VarintBits), 0), UnZigZag)

---------------------------------------------------------------------------
(* Types are records [k |-> kind, ...]; values: a bit sequence for an      *)
(* integer or float, a byte sequence for a String, a sequence for a Vec,   *)
(* an array or a tuple, [tag, v] for Option and Result, a function from    *)
(* field names to values for a struct, [variant, fields] for an enum.      *)

None == [tag |-> "None"]

Some(x) == [v |-> x, tag |-> "Some"]

OkV(x) == [v |-> x, tag |-> "Ok"]

ErrV(x) == [v |-> x, tag |-> "Err"]

\* the 16-bit digit of b that starts at bit lo
Digit(b, lo) == NatOfBits(SubSeq(b, lo + 1, lo + 16))

\* bits 48 and up of len * s for a 64-bit len and a small s (below 2^14),
\* multiplied digit by digit
MulHigh(len, s) ==
    Digit(len, 48) * s
        + (Digit(len, 32) * s + (Digit(len, 16) * s + (Digit(len, 0) * s) \div 65536) \div 65536) \div 65536

\* the number of elements a length announces, or -1 when it is at least 2^24
\* (no buffer of the model holds that many)
SmallCount(len) == SmallLen(len)

RECURSIVE Save(_, _, _), Load(_, _, _, _), SizeOf(_), Default(_)
RECURSIVE SaveSeq(_, _, _), LoadSeq(_, _, _, _, _), SumSizes(_)

\* the values of vs saved one after the other, each as its type in tys
SaveSeq(tys, vs, e) ==
    IF tys = <<>> THEN <<>> ELSE Save(tys[1], vs[1], e) \o SaveSeq(Tail(tys), Tail(vs), e)

\* the types of tys loaded one after the other with `?`: the first failure
\* ends the load
LoadSeq(tys, d, pos, e, acc) ==
    IF tys = <<>> THEN Ok(acc, pos)
    ELSE Try(Load(tys[1], d, pos, e), LAMBDA r : LoadSeq(Tail(tys), d, r.pos, e, Append(acc, r.val)))

SumSizes(tys) == IF tys = <<>> THEN 0 ELSE SizeOf(tys[1]) + SumSizes(Tail(tys))

\* impl Savable for Option<T>
option_save(ty, v, e) == IF v.tag = "None" THEN <<0>> ELSE <<1>> \o Save(ty.t, v.v, e)

\* the load with the tag looked at and left in the buffer
option_load_peek(ty, d, pos, e) ==
    Try(peek_fixed(d, pos, 8, e), LAMBDA tag :
        CASE NatOfBits(tag.val) = 0 -> Ok(None, tag.pos)
          [] NatOfBits(tag.val) = 1 -> MapOk(Load(ty.t, d, tag.pos, e), Some)
          [] OTHER -> Err(tag.pos))

option_load(ty, d, pos, e) ==
    Try(pop_fixed(d, pos, 8, e), LAMBDA tag :
        CASE NatOfBits(tag.val) = 0 -> Ok(None, tag.pos)
          [] NatOfBits(tag.val) = 1 -> MapOk(Load(ty.t, d, tag.pos, e), Some)
          [] OTHER -> Err(tag.pos))

\* impl Savable for Result<T, E>
result_save(ty, v, e) == IF v.tag = "Ok" THEN <<0>> \o Save(ty.t, v.v, e)
                         ELSE <<1>> \o Save(ty.e, v.v, e)

\* a load that takes every tag but 0 for the tag of Err
result_load_lenient(ty, d, pos, e) ==
    Try(pop_fixed(d, pos, 8, e), LAMBDA tag :
        IF NatOfBits(tag.val) = 0 THEN MapOk(Load(ty.t, d, tag.pos, e), OkV)
        ELSE MapOk(Load(ty.e, d, tag.pos, e), ErrV))

result_load(ty, d, pos, e) ==
    Try(pop_fixed(d, pos, 8, e), LAMBDA tag :
        CASE NatOfBits(tag.val) = 0 -> MapOk(Load(ty.t, d, tag.pos, e), OkV)
          [] NatOfBits(tag.val) = 1 -> MapOk(Load(ty.e, d, tag.pos, e), ErrV)
          [] OTHER -> Err(tag.pos))

\* impl Savable for [T; N]
\* a save that writes the length before the elements, as Vec does
array_save_prefixed(ty, v, e) ==
    push_fixed(BitsOfNat(ty.n, 64), e) \o SaveSeq([i \in 1..ty.n |-> ty.t], v, e)

array_save(ty, v, e) == SaveSeq([i \in 1..ty.n |-> ty.t], v, e)

array_load(ty, d, pos, e) == LoadSeq([i \in 1..ty.n |-> ty.t], d, pos, e, <<>>)

\* impl_savable_tuple!
tuple_save(ty, v, e) == SaveSeq(ty.ts, v, e)

tuple_load(ty, d, pos, e) == LoadSeq(ty.ts, d, pos, e, <<>>)

\* Vec::with_capacity(len): "capacity overflow" when len elements take more
\* than isize::MAX bytes (SizeOf is a lower bound of the element's size)
CapacityOverflow(len, t) == SizeOf(t) > 0 /\ MulHigh(len, SizeOf(t)) >= 32768

RECURSIVE vec_load_loop(_, _, _, _, _, _)
\* for _ in 0..len { vec.push(T::load(loader)?) }; a load that takes no byte
\* gives the same element every time: len of them, and a loop that does not
\* end within the model ("hang") for a len of 2^24 or more
vec_load_loop(t, d, pos, e, len, acc) ==
    IF SmallCount(len) = Len(acc) THEN Ok(acc, pos)
    ELSE Try(Load(t, d, pos, e), LAMBDA r :
             IF r.pos = pos /\ SmallCount(len) < 0 THEN [st |-> "hang", val |-> <<>>, pos |-> pos]
             ELSE IF r.pos = pos
                  THEN Ok([i \in 1..SmallCount(len) |-> IF i <= Len(acc) THEN acc[i] ELSE r.val], pos)
             ELSE vec_load_loop(t, d, r.pos, e, len, Append(acc, r.val)))

\* the save with the length pushed as a u32
vec_save_u32(ty, v, e) == push_fixed(BitsOfNat(Len(v), 32), e) \o SaveSeq([i \in 1..Len(v) |-> ty.t], v, e)

\* a failure with the read cursor put back to pos
Restored(r, pos) == IF r.st = "err" THEN Err(pos) ELSE r

\* a load that puts the read cursor back where it started when it fails
vec_load_restoring(ty, d, pos, e) ==
    Restored(Try(pop_fixed(d, pos, 64, e), LAMBDA len :
                 IF CapacityOverflow(len.val, ty.t) THEN Panic(len.pos)
                 ELSE vec_load_loop(ty.t, d, len.pos, e, len.val, <<>>)), pos)

\* impl Savable for Vec<T>
vec_save(ty, v, e) == push_fixed(BitsOfNat(Len(v), 64), e) \o SaveSeq([i \in 1..Len(v) |-> ty.t], v, e)

vec_load(ty, d, pos, e) ==
    Try(pop_fixed(d, pos, 64, e), LAMBDA len :
        IF CapacityOverflow(len.val, ty.t) THEN Panic(len.pos)
        ELSE vec_load_loop(ty.t, d, len.pos, e, len.val, <<>>))

RECURSIVE SaveRun(_, _, _, _, _)
\* for t in &vec[lo - 1..hi] { t.save(saver) }, the run being halved so that
\* long vectors stay within the evaluator's stack
SaveRun(t, v, lo, hi, e) ==
    IF lo > hi THEN <<>>
    ELSE IF lo = hi THEN Save(t, v[lo], e)
    ELSE SaveRun(t, v, lo, (lo + hi) \div 2, e) \o SaveRun(t, v, (lo + hi) \div 2 + 1, hi, e)

RECURSIVE LoadRun(_, _, _, _, _)
\* for _ in 0..n { vec.push(T::load(loader)?) }: the loads one after the
\* other, the first failure ending them
LoadRun(t, d, pos, e, n) ==
    IF n = 0 THEN Ok(<<>>, pos)
    ELSE IF n = 1 THEN MapOk(Load(t, d, pos, e), LAMBDA v : <<v>>)
    ELSE Try(LoadRun(t, d, pos, e, n \div 2), LAMBDA a :
             MapOk(LoadRun(t, d, a.pos, e, n - n \div 2), LAMBDA v : a.val \o v))

\* vec.len().min(2^w - 1); no vector of the model has 2^31 elements
Capped(n, w) == IF w < 31 /\ n > 2^w - 1 THEN 2^w - 1 ELSE n

\* a capped save that writes every element behind the capped length
vecN_save_all(w, t, v, e) ==
    push_fixed(BitsOfNat(Capped(Len(v), w), w), e) \o SaveRun(t, v, 1, Len(v), e)

\* custom::vec8_save, vec16_save, vec32_save: the capped length in w bits,
\* then that many elements
vecN_save(w, t, v, e) ==
    push_fixed(BitsOfNat(Capped(Len(v), w), w), e) \o SaveRun(t, v, 1, Capped(Len(v), w), e)

\* the number of elements a length of 8, 16 or 32 bits announces, or -1
Announced(len) == IF Len(len) <= 24 THEN NatOfBits(len) ELSE SmallCount(len)

\* custom::vec8_load, vec16_load, vec32_load
vecN_load(w, t, d, pos, e) ==
    Try(pop_fixed(d, pos, w, e), LAMBDA len :
        IF Announced(len.val) < 0 THEN vec_load_loop(t, d, len.pos, e, len.val, <<>>)
        ELSE LoadRun(t, d, len.pos, e, Announced(len.val)))

\* custom::raw_vec_save: the elements and nothing else
raw_vec_save(t, v, e) == SaveRun(t, v, 1, Len(v), e)

RECURSIVE raw_vec_loop(_, _, _, _, _)
RECURSIVE raw_vec_step(_, _, _, _, _, _)
\* what the loop does with the outcome r of T::load at pos: an Ok is pushed
\* and the loop goes on, an Err ends the loop with the cursor where the
\* failed load left it.  A load that returned Ok without taking a byte
\* returns Ok at the same cursor for ever: the loop does not end ("hang")
raw_vec_step(r, t, d, pos, e, acc) ==
    CASE r.st = "ok" /\ r.pos = pos -> [st |-> "hang", val |-> <<>>, pos |-> pos]
      [] r.st = "ok" /\ r.pos # pos -> raw_vec_loop(t, d, r.pos, e, Append(acc, r.val))
      [] r.st = "err" -> Ok(acc, r.pos)
      [] OTHER -> r

\* while let Ok(t) = T::load(loader) { vec.push(t) }
raw_vec_loop(t, d, pos, e, acc) == raw_vec_step(Load(t, d, pos, e), t, d, pos, e, acc)

\* custom::raw_vec_load
raw_vec_load(t, d, pos, e) == raw_vec_loop(t, d, pos, e, <<>>)

\* custom::raw_bytes_save, raw_bytes_load
raw_bytes_save(v) == v

raw_bytes_load(d, pos) == pop_to_end(d, pos)

---------------------------------------------------------------------------
(* Times.  A Duration is [secs, nanos], 64 and 32 bits, nanos below 10^9;  *)
(* a SystemTime is its offset from UNIX_EPOCH, [secs, nanos] with secs an  *)
(* i64 that is negative before the epoch.                                  *)

\* NANOS_PER_SEC = 10^9 = BillionHi * 65536 + BillionLo
BillionHi == 15258

BillionLo == 51712

\* ns >= k * 10^9, for a u32 count of nanoseconds
GeBillions(ns, k) ==
    \/ NatOfBits(SubSeq(ns, 17, 32)) > k * BillionHi + ((k * BillionLo) \div 65536)
    \/ /\ NatOfBits(SubSeq(ns, 17, 32)) = k * BillionHi + ((k * BillionLo) \div 65536)
       /\ NatOfBits(SubSeq(ns, 1, 16)) >= (k * BillionLo) % 65536

\* ns / NANOS_PER_SEC, at most 4 for a u32
Billions(ns) == Cardinality({k \in 1..4 : GeBillions(ns, k)})

\* ns % NANOS_PER_SEC
SubsecNanos(ns) ==
    BitsOfNat((NatOfBits(SubSeq(ns, 17, 32)) - Billions(ns) * BillionHi
                   - ((Billions(ns) * BillionLo) \div 65536)) * 65536
              + NatOfBits(SubSeq(ns, 1, 16)) - ((Billions(ns) * BillionLo) % 65536), 32)

\* adding c <= 4 to the u64 secs carries out of its three low bits into bit i
Ripples(secs, c, i) ==
    /\ NatOfBits(SubSeq(secs, 1, 3)) + c >= 8
    /\ \A j \in 4..(i - 1) : secs[j] = 1

\* secs.checked_add(c): None when the carry runs out of the 64 bits
CheckedAddOverflows(secs, c) == Ripples(secs, c, 65)

CheckedAdd(secs, c) ==
    [i \in 1..64 |-> IF i <= 3 THEN BitsOfNat((NatOfBits(SubSeq(secs, 1, 3)) + c) % 8, 3)[i]
                     ELSE (secs[i] + (IF Ripples(secs, c, i) THEN 1 ELSE 0)) % 2]

\* Duration::new(secs, nanos): the whole seconds in nanos are carried into
\* secs, and it panics ("overflow in Duration::new") when secs overflows
duration_new(secs, nanos, pos) ==
    IF CheckedAddOverflows(secs, Billions(nanos)) THEN Panic(pos)
    ELSE Ok([secs |-> CheckedAdd(secs, Billions(nanos)), nanos |-> SubsecNanos(nanos)], pos)

\* impl Savable for Duration
duration_save(v, e) == push_fixed(v.secs, e) \o push_fixed(v.nanos, e)

duration_load(d, pos, e) ==
    Try(pop_fixed(d, pos, 64, e), LAMBDA s :
        Try(pop_fixed(d, s.pos, 32, e), LAMBDA n : duration_new(s.val, n.val, n.pos)))

\* a < b, unsigned
Less(a, b) == \E i \in 1..Len(a) : a[i] < b[i] /\ \A j \in (i + 1)..Len(a) : a[j] = b[j]

\* a - b borrows from bit i
Borrows(a, b, i) == \E j \in 1..(i - 1) : a[j] < b[j] /\ \A k \in (j + 1)..(i - 1) : a[k] = b[k]

WrappingSub(a, b) == [i \in 1..Len(a) |-> (a[i] + b[i] + (IF Borrows(a, b, i) THEN 1 ELSE 0)) % 2]

\* Duration - Duration: checked_sub(rhs).expect("overflow when subtracting
\* durations"), a second being borrowed when the nanoseconds do not suffice
duration_sub(a, b) ==
    IF Less(a.secs, b.secs) \/ (a.secs = b.secs /\ Less(a.nanos, b.nanos)) THEN Panic(0)
    ELSE IF ~Less(a.nanos, b.nanos)
    THEN Ok([secs |-> WrappingSub(a.secs, b.secs), nanos |-> WrappingSub(a.nanos, b.nanos)], 0)
    ELSE Ok([secs |-> WrappingSub(WrappingSub(a.secs, b.secs), BitsOfNat(1, 64)),
             nanos |-> BitsOfNat(NatOfBits(a.nanos) + 1000000000 - NatOfBits(b.nanos), 32)], 0)

\* time.duration_since(UNIX_EPOCH).unwrap_or_default(): zero before the epoch
since_epoch(t) == IF t.secs[64] = 1 THEN [secs |-> Zero(64), nanos |-> Zero(32)] ELSE t

\* impl Savable for SystemTime; UNIX_EPOCH + duration panics ("overflow when
\* adding duration to instant") when the seconds do not fit an i64
systemtime_save(v, e) == duration_save(since_epoch(v), e)

\* impl Savable for Instant: the Duration that save writes when the system
\* clock reads wall and the instant lies elapsed in the past (elapsed is
\* Instant::now().duration_since(*self), zero for an instant in the future)
instant_duration(wall, elapsed) == duration_sub(since_epoch(wall), elapsed)

systemtime_load(d, pos, e) ==
    Try(duration_load(d, pos, e), LAMBDA r : IF r.val.secs[64] = 1 THEN Panic(r.pos) ELSE r)

---------------------------------------------------------------------------
(* The derive macro.  A field is [name, ty, attrs]; an attribute is        *)
(* [meta, path, args]: #[unsaved] is a path, #[custom(save = f, load = g)] *)
(* a list of key = value pairs.  The macro's output is the statement lists *)
(* of the generated save and load, which ExecSave and ExecLoad run.        *)

Unsaved == [meta |-> "path", path |-> "unsaved", args |-> <<>>]

Custom(s, l) == [meta |-> "list", path |-> "custom",
                 args |-> <<[value |-> s, key |-> "save", expr |-> "path"],
                            [value |-> l, key |-> "load", expr |-> "path"]>>]

Field(n, t, as) == [ty |-> t, name |-> n, attrs |-> as]

Stmt(o, f, fn) == [ty |-> f.ty, name |-> f.name, fn |-> fn, op |-> o]

MapSeq(s, F(_)) == [i \in 1..Len(s) |-> F(s[i])]

\* an is_unsaved that recognises no attribute
is_unsaved_never(attr) == FALSE

is_unsaved(attr) == attr.meta = "path" /\ attr.path = "unsaved"

\* a filter that lets every field through
filter_all(f) == TRUE

\* filter: the field carries no #[unsaved]
filter(f) == ~ \E i \in 1..Len(f.attrs) : is_unsaved(f.attrs[i])

IsCustomAttr(attr) == attr.meta = "list" /\ attr.path = "custom"

filter_custom(f) == \E i \in 1..Len(f.attrs) : IsCustomAttr(f.attrs[i])

\* get_custom: the first #[custom(...)] of the field decides; the attributes
\* after it are not looked at.  [st |-> "none"] when the field has none.
get_custom(f) ==
    LET cs == SelectSeq(f.attrs, IsCustomAttr) IN
    IF cs = <<>> THEN [st |-> "none", save |-> "", load |-> ""]
    ELSE LET values == cs[1].args IN
         IF Len(values) # 2 THEN [st |-> "panic", save |-> "", load |-> ""]
         ELSE IF values[1].key # "save" \/ values[2].key # "load"
              THEN [st |-> "panic", save |-> "", load |-> ""]
         ELSE IF values[1].expr # "path" \/ values[2].expr # "path"
              THEN [st |-> "panic", save |-> "", load |-> ""]
         ELSE [st |-> "ok", save |-> values[1].value, load |-> values[2].value]

NotFilter(f) == ~ filter(f)

NotCustom(f) == ~ filter_custom(f)

SaveStmt(f) == Stmt("save", f, "")

LoadStmt(f) == Stmt("load", f, "")

DefaultStmt(f) == Stmt("default", f, "")

CustomSaveStmt(f) == Stmt("custom", f, get_custom(f).save)

CustomLoadStmt(f) == Stmt("custom", f, get_custom(f).load)

CustomPanics(fs) == \E i \in 1..Len(fs) : get_custom(fs[i]).st = "panic"

\* savable.rs named: the normal fields in declaration order, then the custom
\* fields in declaration order; load puts the defaults of the unsaved fields
\* between them
named_save(fields) ==
    LET saved  == SelectSeq(fields, filter)
        custom == SelectSeq(saved, filter_custom)
        normal == SelectSeq(saved, NotCustom)
    IN  MapSeq(normal, SaveStmt) \o MapSeq(custom, CustomSaveStmt)

named_load(fields) ==
    LET saved   == SelectSeq(fields, filter)
        unsaved == SelectSeq(fields, NotFilter)
        custom  == SelectSeq(saved, filter_custom)
        normal  == SelectSeq(saved, NotCustom)
    IN  MapSeq(normal, LoadStmt) \o MapSeq(unsaved, DefaultStmt) \o MapSeq(custom, CustomLoadStmt)

named(fields) ==
    IF CustomPanics(SelectSeq(fields, filter)) THEN [st |-> "panic", save |-> <<>>, load |-> <<>>]
    ELSE [st |-> "ok", save |-> named_save(fields), load |-> named_load(fields)]

\* fields.unnamed.iter().enumerate(): a tuple field is named by its index
Enumerate(fields) == [i \in 1..Len(fields) |-> [fields[i] EXCEPT !.name = i - 1]]

\* savable.rs unnamed: as named, over the enumerated fields
unnamed(fields) == named(Enumerate(fields))

\* savable.rs unit: save writes nothing, load reads nothing
unit == [st |-> "ok", save |-> <<>>, load |-> <<>>]

\* the type of the discriminant with the first limit off by one
id_ty_inclusive(len, varint) == CASE varint -> "u64"
                                  [] ~varint /\ len <= 256 -> "u8"
                                  [] ~varint /\ len > 256 /\ len < 65536 -> "u16"
                                  [] OTHER -> "u32"

\* savable2.rs enumerator: the type of the discriminant
id_ty(len, varint) == CASE varint -> "u64"
                        [] ~varint /\ len < 256 -> "u8"
                        [] ~varint /\ len >= 256 /\ len < 65536 -> "u16"
                        [] OTHER -> "u32"

FieldSaveStmt(f) == IF get_custom(f).st = "none" THEN SaveStmt(f) ELSE CustomSaveStmt(f)

FieldLoadStmt(f) == IF get_custom(f).st = "none" THEN LoadStmt(f) ELSE CustomLoadStmt(f)

\* the fields of variant i (0-based); the variants the type does not spell
\* out are unit variants
VariantOf(ty, i) == IF i < Len(ty.variants) THEN ty.variants[i + 1]
                    ELSE [fields |-> <<>>, shape |-> "unit"]

VariantFields(var) == IF var.shape = "unnamed" THEN Enumerate(var.fields) ELSE var.fields

\* savable2.rs enumerator, the save arm of a variant: the saved fields in
\* declaration order, each by its custom function if it has one
variant_save(var) == MapSeq(SelectSeq(VariantFields(var), filter), FieldSaveStmt)

\* a load arm that takes the normal fields first and the custom fields last
variant_load_grouped(var) ==
    MapSeq(SelectSeq(SelectSeq(VariantFields(var), filter), NotCustom), LoadStmt)
        \o MapSeq(SelectSeq(VariantFields(var), NotFilter), DefaultStmt)
        \o MapSeq(SelectSeq(SelectSeq(VariantFields(var), filter), filter_custom), CustomLoadStmt)

\* savable2.rs enumerator, the load arm of a variant: the same fields in the
\* same order, then the defaults of the unsaved fields
variant_load(var) ==
    MapSeq(SelectSeq(VariantFields(var), filter), FieldLoadStmt)
        \o MapSeq(SelectSeq(VariantFields(var), NotFilter), DefaultStmt)

\* derive_savable for a struct
derive_struct(ty) == CASE ty.shape = "named" -> named(ty.fields)
                       [] ty.shape = "unnamed" -> unnamed(ty.fields)
                       [] OTHER -> unit

\* derive_savable for an enum: it panics when a custom attribute of a saved
\* field of a variant is malformed
derive_enum(ty) ==
    IF \E i \in 1..Len(ty.variants) : CustomPanics(SelectSeq(ty.variants[i].fields, filter))
    THEN [st |-> "panic"] ELSE [st |-> "ok"]

\* derive_savable: structs and enums get an implementation, a union panics
\* ("Deriving Savable for unions is not supported!")
derive_savable(ty) == CASE ty.k = "Struct" -> derive_struct(ty)
                        [] ty.k = "Enum" -> derive_enum(ty)
                        [] ty.k = "Union" -> [st |-> "panic"]

---------------------------------------------------------------------------
(* Custom field codecs, and the generated code at work.                    *)

\* tests::hello: the value three times
hello(v, e) == push_fixed(v, e) \o push_fixed(v, e) \o push_fixed(v, e)

\* tests::world: three loads, then the value two of them agree on
world(d, pos, e) ==
    Try(pop_fixed(d, pos, 32, e), LAMBDA a :
    Try(pop_fixed(d, a.pos, 32, e), LAMBDA b :
    Try(pop_fixed(d, b.pos, 32, e), LAMBDA c :
        IF a.val = b.val THEN Ok(a.val, c.pos)
        ELSE IF b.val = c.val THEN Ok(b.val, c.pos)
        ELSE IF a.val = c.val THEN Ok(c.val, c.pos)
        ELSE Err(c.pos))))

\* #save(saver, &field) for the custom save function named fn
custom_save(fn, v, e) == CASE fn = "hello" -> hello(v, e)
                           [] fn = "varint_save" -> varint_save(v)
                           [] fn = "varint_signed_save" -> varint_signed_save(v)
                           [] fn = "string8_save" -> string8_save(v)
                           [] fn = "string16_save" -> string16_save(v, e)

\* #load(loader)? for the custom load function named fn
custom_load(fn, d, pos, e) == CASE fn = "world" -> world(d, pos, e)
                                [] fn = "varint_load" -> varint_load(d, pos)
                                [] fn = "varint_signed_load" -> varint_signed_load(d, pos)
                                [] fn = "string8_load" -> string8_load(d, pos, e)
                                [] fn = "string16_load" -> string16_load(d, pos, e)

RECURSIVE ExecSave(_, _, _)
\* the statements of a generated save, in order
ExecSave(stmts, v, e) ==
    IF stmts = <<>> THEN <<>>
    ELSE (IF stmts[1].op = "custom" THEN custom_save(stmts[1].fn, v[stmts[1].name], e)
          ELSE Save(stmts[1].ty, v[stmts[1].name], e))
             \o ExecSave(Tail(stmts), v, e)

RECURSIVE ExecLoadEager(_, _, _, _, _)
\* a generated load without `?`: the statements after a failed one still run,
\* and the failure is reported at the end
ExecLoadEager(stmts, d, pos, e, env) ==
    IF stmts = <<>> THEN Ok(env, pos)
    ELSE LET r == CASE stmts[1].op = "load" -> Load(stmts[1].ty, d, pos, e)
                    [] stmts[1].op = "default" -> Ok(Default(stmts[1].ty), pos)
                    [] stmts[1].op = "custom" -> custom_load(stmts[1].fn, d, pos, e)
         IN  IF r.st = "ok"
             THEN ExecLoadEager(Tail(stmts), d, r.pos, e, (stmts[1].name :> r.val) @@ env)
             ELSE Err(ExecLoadEager(Tail(stmts), d, r.pos, e, env).pos)

RECURSIVE ExecLoad(_, _, _, _, _)
\* the statements of a generated load, in order: `let name = ...?;`, the
\* first failure returning; env holds the fields bound so far
ExecLoad(stmts, d, pos, e, env) ==
    IF stmts = <<>> THEN Ok(env, pos)
    ELSE Try(CASE stmts[1].op = "load" -> Load(stmts[1].ty, d, pos, e)
               [] stmts[1].op = "default" -> Ok(Default(stmts[1].ty), pos)
               [] stmts[1].op = "custom" -> custom_load(stmts[1].fn, d, pos, e),
             LAMBDA r : ExecLoad(Tail(stmts), d, r.pos, e, (stmts[1].name :> r.val) @@ env))

\* the generated impl of a derived struct
struct_save(ty, v, e) == ExecSave(derive_struct(ty).save, v, e)

struct_load(ty, d, pos, e) == ExecLoad(derive_struct(ty).load, d, pos, e, <<>>)

\* the generated save of a derived enum: the discriminant `i as id_ty` (or
\* varint_save(i as u64)), then the fields of the active variant
enum_save(ty, v, e) ==
    (IF ty.varint THEN varint_save(Cast(BitsOfNat(v.variant, UsizeBits), 64))
     ELSE push_fixed(Cast(BitsOfNat(v.variant, UsizeBits), Width(id_ty(ty.len, ty.varint))), e))
        \o ExecSave(variant_save(VariantOf(ty, v.variant)), v.fields, e)

\* the arm `i => ...` of `match disc as u32` that a 32-bit discriminant
\* selects among the len variants, or -1 for the arm `_`
MatchArm(disc, len) ==
    IF \E j \in 1..Len(disc) : j > 30 /\ disc[j] = 1 THEN -1
    ELSE IF NatOfBits(SubSeq(disc, 1, 30)) < len THEN NatOfBits(SubSeq(disc, 1, 30)) ELSE -1

\* the arm `arm => { ...; Ok(Name::Variant { .. }) }`
enum_arm(ty, d, pos, e, arm) ==
    IF arm < 0 THEN Err(pos)
    ELSE MapOk(ExecLoad(variant_load(VariantOf(ty, arm)), d, pos, e, <<>>),
               LAMBDA fs : [fields |-> fs, variant |-> arm])

\* the generated load of a derived enum
enum_load(ty, d, pos, e) ==
    Try(IF ty.varint THEN varint_load(d, pos)
        ELSE pop_fixed(d, pos, Width(id_ty(ty.len, ty.varint)), e),
        LAMBDA id : enum_arm(ty, d, id.pos, e, MatchArm(Cast(id.val, 32), ty.len)))

\* Savable::save of a value of type ty: the bytes it pushes
Save(ty, v, e) ==
    CASE ty.k = "bool" \/ ty.k \in FixedKinds -> prim_save(ty.k, v, e)
      [] ty.k = "usize" -> usize_save(v)
      [] ty.k = "isize" -> isize_save(v)
      [] ty.k = "String" -> push_string(v, e)
      [] ty.k = "Option" -> option_save(ty, v, e)
      [] ty.k = "Result" -> result_save(ty, v, e)
      [] ty.k = "Array" -> array_save(ty, v, e)
      [] ty.k = "Tuple" -> tuple_save(ty, v, e)
      [] ty.k = "Vec" -> vec_save(ty, v, e)
      [] ty.k = "Struct" -> struct_save(ty, v, e)
      [] ty.k = "Enum" -> enum_save(ty, v, e)
      [] ty.k = "custom" -> custom_save(ty.save, v, e)
      [] ty.k = "Bytes" -> v
      [] ty.k = "Duration" -> duration_save(v, e)
      [] ty.k = "VecN" -> vecN_save(ty.n, ty.t, v, e)
      [] ty.k = "RawVec" -> raw_vec_save(ty.t, v, e)
      [] ty.k = "RawBytes" -> raw_bytes_save(v)
      [] ty.k = "SystemTime" -> systemtime_save(v, e)

\* Savable::load of type ty at read cursor pos
Load(ty, d, pos, e) ==
    CASE ty.k = "bool" \/ ty.k \in FixedKinds -> prim_load(ty.k, d, pos, e)
      [] ty.k = "usize" -> usize_load(d, pos)
      [] ty.k = "isize" -> isize_load(d, pos)
      [] ty.k = "String" -> pop_string(d, pos, e)
      [] ty.k = "Option" -> option_load(ty, d, pos, e)
      [] ty.k = "Result" -> result_load(ty, d, pos, e)
      [] ty.k = "Array" -> array_load(ty, d, pos, e)
      [] ty.k = "Tuple" -> tuple_load(ty, d, pos, e)
      [] ty.k = "Vec" -> vec_load(ty, d, pos, e)
      [] ty.k = "Struct" -> struct_load(ty, d, pos, e)
      [] ty.k = "Enum" -> enum_load(ty, d, pos, e)
      [] ty.k = "custom" -> custom_load(ty.load, d, pos, e)
      [] ty.k = "Bytes" -> pop_bytes(d, pos, ty.n)
      [] ty.k = "Duration" -> duration_load(d, pos, e)
      [] ty.k = "VecN" -> vecN_load(ty.n, ty.t, d, pos, e)
      [] ty.k = "RawVec" -> raw_vec_load(ty.t, d, pos, e)
      [] ty.k = "RawBytes" -> raw_bytes_load(d, pos)
      [] ty.k = "SystemTime" -> systemtime_load(d, pos, e)

\* a lower bound of size_of::<T>() in bytes
SizeOf(ty) ==
    CASE ty.k = "bool" -> 1
      [] ty.k \in FixedKinds -> Width(ty.k) \div 8
      [] ty.k \in {"usize", "isize"} -> UsizeBits \div 8
      [] ty.k \in {"String", "Vec"} -> 3 * (UsizeBits \div 8)
      [] ty.k = "Option" -> SizeOf(ty.t)
      [] ty.k = "Result" -> IF SizeOf(ty.t) > SizeOf(ty.e) THEN SizeOf(ty.t) ELSE SizeOf(ty.e)
      [] ty.k = "Array" -> ty.n * SizeOf(ty.t)
      [] ty.k = "Tuple" -> SumSizes(ty.ts)
      [] ty.k = "Struct" -> SumSizes(MapSeq(ty.fields, LAMBDA f : f.ty))
      [] OTHER -> 0

\* <T as Default>::default()
Default(ty) ==
    CASE ty.k = "bool" -> FALSE
      [] ty.k \in FixedKinds -> Zero(Width(ty.k))
      [] ty.k \in {"usize", "isize"} -> Zero(UsizeBits)
      [] ty.k = "Option" -> None
      [] ty.k = "Array" -> [i \in 1..ty.n |-> Default(ty.t)]
      [] ty.k = "Tuple" -> MapSeq(ty.ts, Default)
      [] OTHER -> <<>>

---------------------------------------------------------------------------
(* The state machine: a ByteBuffer (data, wpos, rpos, endian) that a       *)
(* session saves values into and loads them back from.  log records what   *)
(* was written where (raw entries are bytes pushed with push_bytes, to be  *)
(* loaded as the type the entry names); next is the entry the next load is *)
(* for; last is the outcome of the latest load.                            *)

T(kind) == [k |-> kind]

NoLoad == [st |-> "none", val |-> <<>>, idx |-> 0, from |-> 0, to |-> 0]

\* ByteBuffer::new_be() and ByteBuffer::new_le()
Init == /\ data = <<>>
        /\ rpos = 0
        /\ wpos = 0
        /\ endian \in {"BE", "LE"}
        /\ log = <<>>
        /\ next = 1
        /\ last = NoLoad
        /\ NoState /\ NoCell /\ NoPar /\ NoTarget

\* a load that panicked (or does not return) ends the session
Alive == last.st \in {"none", "ok", "err"}

\* bs written at the write cursor and recorded as an entry of type ty
Write(ty, raw, v, bs) ==
    /\ data' = push_bytes(data, wpos, bs)
    /\ wpos' = wpos + Len(bs)
    /\ log' = Append(log, [val |-> v, ty |-> ty, from |-> wpos, to |-> wpos + Len(bs), raw |-> raw])
    /\ UNCHANGED others
    /\ UNCHANGED <<rpos, endian, next, last>>

\* value.save(&mut buffer)
SaveValue(ty, v) == Alive /\ Len(log) < MaxOps /\ Write(ty, FALSE, v, Save(ty, v, endian))

\* buffer.push_bytes(bs), the bytes being meant as a value of type ty
PushRaw(ty, bs) == Alive /\ Len(log) < MaxOps /\ Write(ty, TRUE, bs, bs)

\* T::load(&mut buffer) for the type of the next entry
\* what a load that ended as r leaves behind
Loaded(r) ==
    /\ rpos' = r.pos
    /\ last' = [st |-> r.st, val |-> r.val, idx |-> next, from |-> rpos, to |-> r.pos]
    /\ next' = next + 1
    /\ UNCHANGED others
    /\ UNCHANGED <<data, wpos, endian, log>>

LoadNext == Alive /\ next <= Len(log) /\ Loaded(Load(log[next].ty, data, rpos, endian))

\* the entry the latest load was for
Entry == log[last.idx]

\* the latest load read a saved value from the place it was saved at
Aligned == last.idx > 0 /\ ~Entry.raw /\ last.from = Entry.from

\* the latest load read pushed bytes from the place they were pushed at
AlignedRaw == last.idx > 0 /\ Entry.raw /\ last.from = Entry.from

\* the bytes entry i of the log put into the buffer
Written(i) == SubSeq(data, log[i].from + 1, log[i].to)

---------------------------------------------------------------------------
(* Primitives.                                                             *)

\* 0x1000
X1000(w) == BitsOfNat(4096, w)

\* a value with an irregular bit pattern
Pattern(w) == [i \in 1..w |-> IF i % 3 = 1 \/ i % 7 = 0 THEN 1 ELSE 0]

Samples(w) == {X1000(w), Pattern(w), AllOnes(w)}

PrimValues(k) == IF k = "bool" THEN {TRUE, FALSE} ELSE Samples(Width(k))

SavePrim == \E k \in FixedKinds \cup {"bool"} : \E v \in PrimValues(k) : SaveValue(T(k), v)

NextPrim == SavePrim \/ LoadNext

SpecPrim == Init /\ [][NextPrim]_vars

IsPrim(ty) == ty.k \in FixedKinds \cup {"bool"}

\* C1: a primitive saved into a buffer and loaded from it with the same
\* endianness comes back as the value saved; in little-endian the u16 0x1000
\* is the bytes [0x00, 0x10].
C1_PrimRoundTrip ==
    /\ (Aligned /\ IsPrim(Entry.ty)) => (last.st = "ok" /\ last.val = Entry.val)
    /\ \A i \in 1..Len(log) :
         (log[i].ty = T("u16") /\ log[i].val = X1000(16) /\ endian = "LE")
             => Written(i) = <<0, 16>>

C1_Witness ==
    /\ Aligned /\ Entry.ty = T("u16") /\ Entry.val = X1000(16) /\ endian = "LE"
    /\ last.st = "ok" /\ last.idx = 2

---------------------------------------------------------------------------
(* Varints.                                                                *)

\* a field saved by custom::varint_save and loaded by custom::varint_load
Varint == [k |-> "custom", save |-> "varint_save", load |-> "varint_load"]

\* a field saved by custom::varint_signed_save and loaded by its inverse
VarintSigned == [k |-> "custom", save |-> "varint_signed_save", load |-> "varint_signed_load"]

UnsignedVarints == {T("usize"), Varint}

SignedVarints == {T("isize"), VarintSigned}

\* i64::MIN
MinBits(w) == [i \in 1..w |-> IF i = w THEN 1 ELSE 0]

\* i64::MAX
MaxBits(w) == [i \in 1..w |-> IF i = w THEN 0 ELSE 1]

\* 0, 127, 128 and u64::MAX for the unsigned types; 0, -1, the minimum and
\* the maximum for the signed ones
VarintValues(ty) == IF ty \in UnsignedVarints
                    THEN {Zero(64), BitsOfNat(127, 64), BitsOfNat(128, 64), AllOnes(64)}
                    ELSE {Zero(64), AllOnes(64), MinBits(64), MaxBits(64)}

Rep(b, n) == [i \in 1..n |-> b]

\* byte sequences a foreign writer may leave: u64::MAX, ten bytes whose last
\* carries bits 64 and up, and eleven bytes
RawVarints == {Rep(255, 9) \o <<1>>, Rep(255, 9) \o <<2>>, Rep(128, 9) \o <<126>>,
               Rep(128, 10) \o <<1>>}

SaveVarint == \E ty \in UnsignedVarints \cup SignedVarints : \E v \in VarintValues(ty) : SaveValue(ty, v)

PushVarint == \E ty \in UnsignedVarints \cup SignedVarints : \E bs \in RawVarints : PushRaw(ty, bs)

NextVarint == SaveVarint \/ PushVarint \/ LoadNext

SpecVarint == Init /\ [][NextVarint]_vars

\* bit j (0 the lowest) of the number n
BitOf(n, j) == (n \div (2 ^ j)) % 2

\* bs is the unsigned LEB128 form of v: every byte but the last has its high
\* bit set, byte i holds bits 7(i-1) .. 7i-1 of v, no bit of v is left out and
\* no byte follows once the rest of v is zero
IsLeb128(bs, v) ==
    /\ Len(bs) >= 1
    /\ \A i \in 1..Len(bs) : (bs[i] >= 128) <=> (i < Len(bs))
    /\ \A i \in 1..Len(bs) : \A j \in 0..6 :
         BitOf(bs[i], j) = (IF 7 * (i - 1) + j < Len(v) THEN v[7 * (i - 1) + j + 1] ELSE 0)
    /\ \A b \in 1..Len(v) : b > 7 * Len(bs) => v[b] = 0
    /\ Len(bs) > 1 => bs[Len(bs)] # 0

\* C8: usize save and custom::varint_save write the 7-bit groups of the value
\* low to high, the high bit set on every byte but the last, and stop once
\* the rest is zero: 0 is [0x00], 127 is [0x7F], 128 is [0x80, 0x01].
C8_UnsignedVarintEncoding ==
    \A i \in 1..Len(log) : (~log[i].raw /\ log[i].ty \in UnsignedVarints) =>
        /\ IsLeb128(Written(i), log[i].val)
        /\ log[i].val = Zero(64) => Written(i) = <<0>>
        /\ log[i].val = BitsOfNat(127, 64) => Written(i) = <<127>>
        /\ log[i].val = BitsOfNat(128, 64) => Written(i) = <<128, 1>>

C8_Witness ==
    \E i \in 1..Len(log) : /\ log[i].ty = Varint /\ ~log[i].raw
                           /\ log[i].val = BitsOfNat(128, 64) /\ Written(i) = <<128, 1>>
                           /\ \E j \in 1..Len(log) : log[j].ty = T("usize") /\ Written(j) = <<127>>

\* the index of the byte that ends the first varint of bs, 0 when none does
Terminator(bs) == IF \E i \in 1..Len(bs) : bs[i] < 128
                  THEN CHOOSE i \in 1..Len(bs) : bs[i] < 128 /\ \A j \in 1..(i - 1) : bs[j] >= 128
                  ELSE 0

\* the 7-bit groups of the first varint of bs carry a bit at position w or above
Overflows(bs, w) ==
    \E i \in 1..Terminator(bs) : \E j \in 0..6 : BitOf(bs[i], j) = 1 /\ 7 * (i - 1) + j >= w

\* C9: a varint decoder (varint_load, varint_signed_load, usize load, isize
\* load) returns an error for every byte sequence whose groups carry more
\* significant bits than the 64 of the target.
C9_OverflowIsError ==
    (AlignedRaw /\ Entry.ty \in UnsignedVarints \cup SignedVarints /\ Overflows(Entry.val, 64))
        => last.st = "err"

\* C10: a signed value saved by isize's save or varint_signed_save and loaded
\* by the matching load comes back unchanged, the minimum and the maximum
\* included.
C10_ZigZagRoundTrip ==
    (Aligned /\ Entry.ty \in SignedVarints) => (last.st = "ok" /\ last.val = Entry.val)

C10_Witness ==
    /\ Aligned /\ Entry.ty = VarintSigned /\ Entry.val = MinBits(64)
    /\ last.st = "ok" /\ last.val = MinBits(64) /\ Len(Written(last.idx)) = 10

---------------------------------------------------------------------------
(* Composite values.                                                       *)

OptionOf(t) == [k |-> "Option", t |-> t]

ResultOf(t, e) == [k |-> "Result", e |-> e, t |-> t]

VecOf(t) == [k |-> "Vec", t |-> t]

ArrayOf(t, n) == [n |-> n, k |-> "Array", t |-> t]

TupleOf(ts) == [k |-> "Tuple", ts |-> ts]

\* #[custom(save = hello, load = world)]
HelloWorld == Custom("hello", "world")

\* tests::A
StructA == [k |-> "Struct", fields |-> <<>>, shape |-> "unit"]

\* the fields of tests::C, of E::C and (unnamed) of tests::B and E::B
FieldsC == <<Field("a", T("String"), <<>>), Field("_b", T("u32"), <<Unsaved>>),
             Field("c", T("i32"), <<HelloWorld>>)>>

\* tests::C
StructC == [k |-> "Struct", fields |-> FieldsC, shape |-> "named"]

\* tests::E
EnumE == [k |-> "Enum", len |-> 3, varint |-> TRUE,
          variants |-> <<[fields |-> <<>>, shape |-> "unit"],
                         [fields |-> FieldsC, shape |-> "unnamed"],
                         [fields |-> FieldsC, shape |-> "named"]>>]

\* "Hi" and "é"
Hi == <<72, 105>>

Eacute == <<195, 169>>

\* the i32 -123
Minus123 == [i \in 1..32 |-> IF i \in {1, 3, 8} THEN 1 ELSE IF i <= 7 THEN 0 ELSE 1]

\* a value of tests::C / the fields of E::C
ValueC(a, b, c) == [a |-> a, c |-> c, _b |-> b]

Pair(ty, v) == [v |-> v, ty |-> ty]

\* the values the sessions save: one or two of each pure-data type
Composites ==
    << Pair(T("usize"), BitsOfNat(300, 64)), Pair(T("isize"), AllOnes(64)),
      Pair(T("bool"), TRUE), Pair(T("u32"), Pattern(32)),
      Pair(T("String"), Hi), Pair(T("String"), <<>>), Pair(T("String"), Eacute),
      Pair(OptionOf(T("u16")), None), Pair(OptionOf(T("u16")), Some(X1000(16))),
      Pair(ResultOf(T("u8"), T("String")), OkV(BitsOfNat(7, 8))),
      Pair(ResultOf(T("u8"), T("String")), ErrV(Hi)),
      Pair(VecOf(T("u16")), <<>>), Pair(VecOf(T("u16")), <<X1000(16), Pattern(16)>>),
      Pair(VecOf(T("String")), <<Hi, <<>>, Eacute>>),
      Pair(VecOf(StructA), <<<<>>, <<>>>>),
      Pair(VecOf(VecOf(T("u8"))), << <<>>, <<BitsOfNat(1, 8)>> >>),
      Pair(ArrayOf(T("i32"), 3), <<Minus123, Zero(32), Pattern(32)>>),
      Pair(TupleOf(<<T("u8"), T("String")>>), <<BitsOfNat(200, 8), Hi>>),
      Pair(StructC, ValueC(Hi, BitsOfNat(123, 32), Minus123)),
      Pair(EnumE, [fields |-> <<>>, variant |-> 0]),
      Pair(EnumE, [fields |-> ValueC(Hi, BitsOfNat(123, 32), Minus123), variant |-> 2]) >>

\* bytes that follow a saved value and are no part of it
Junk == {<<0>>, <<255, 255, 255>>, <<1, 0, 0, 0, 0, 0, 0, 0, 9>>}

SaveComposite == \E i \in 1..Len(Composites) : SaveValue(Composites[i].ty, Composites[i].v)

\* buffer.push_bytes(bs), to be taken back by pop_bytes(bs.len())
PushJunk == \E bs \in Junk : PushRaw([n |-> Len(bs), k |-> "Bytes"], bs)

NextComposite == SaveComposite \/ PushJunk \/ LoadNext

SpecComposite == Init /\ [][NextComposite]_vars

\* C2: load of a saved pure-data value, whatever bytes follow it in the
\* buffer, succeeds and advances the read cursor by exactly the bytes save
\* wrote.
C2_LoadConsumesWhatSaveWrote ==
    Aligned => (last.st = "ok" /\ last.to - last.from = Len(Save(Entry.ty, Entry.val, endian))
                /\ last.to = Entry.to)

C2_Witness ==
    /\ Aligned /\ Entry.ty = EnumE /\ Entry.val.variant = 2
    /\ last.idx = 1 /\ Len(log) = 2 /\ log[2].raw /\ Len(data) > last.to
    /\ last.to = Entry.to

\* C3: a Vec saved and loaded comes back as an equal sequence; the empty Vec
\* is written as 8 zero bytes and nothing else.
C3_VecRoundTrip ==
    /\ (Aligned /\ Entry.ty.k = "Vec") => (last.st = "ok" /\ last.val = Entry.val)
    /\ \A i \in 1..Len(log) : (~log[i].raw /\ log[i].ty.k = "Vec" /\ log[i].val = <<>>)
                                  => Written(i) = Rep(0, 8)

C3_Witness ==
    /\ Aligned /\ Entry.ty = VecOf(T("String")) /\ Len(Entry.val) = 3 /\ last.val = Entry.val
    /\ \E i \in 1..Len(log) : log[i].ty = VecOf(T("u16")) /\ log[i].val = <<>>
                              /\ Written(i) = Rep(0, 8)

---------------------------------------------------------------------------
(* Derived records.                                                        *)

SaveRecord ==
    \E a \in {Hi, Eacute} : \E b \in {Zero(32), BitsOfNat(123, 32), AllOnes(32)} :
        \E c \in {Minus123, MaxBits(32)} : SaveValue(StructC, ValueC(a, b, c))

NextRecord == SaveRecord \/ LoadNext

SpecRecord == Init /\ [][NextRecord]_vars

\* C4: a record (a: String, b: u32 unsaved, c: i32 custom) saved and loaded
\* has its a and c back and b = 0, the default of u32, whatever b was.
C4_RecordRoundTrip ==
    (Aligned /\ Entry.ty = StructC) =>
        /\ last.st = "ok"
        /\ last.val.a = Entry.val.a
        /\ last.val.c = Entry.val.c
        /\ last.val._b = Zero(32)

C4_Witness ==
    /\ Aligned /\ Entry.ty = StructC /\ Entry.val = ValueC(Hi, BitsOfNat(123, 32), Minus123)
    /\ last.st = "ok" /\ last.val = ValueC(Hi, Zero(32), Minus123)

---------------------------------------------------------------------------
(* Derived enums and their discriminants.                                  *)

\* an enum of n variants: the first a unit variant, the second with the
\* fields of tests::C, the others unit variants
EnumN(n, varint) == [k |-> "Enum", len |-> n, varint |-> varint,
                     variants |-> <<[fields |-> <<>>, shape |-> "unit"],
                                    [fields |-> FieldsC, shape |-> "named"]>>]

EnumTypes == {EnumN(255, FALSE), EnumN(256, FALSE), EnumN(65535, FALSE), EnumN(65536, FALSE),
              EnumN(3, TRUE), EnumN(300, TRUE)}

\* a value of variant i of an enum of EnumTypes
EnumValue(i) == [fields |-> IF i = 1 THEN ValueC(Hi, BitsOfNat(123, 32), Minus123) ELSE <<>>,
                 variant |-> i]

SaveEnum == \E ty \in EnumTypes : \E i \in {0, 1, ty.len - 1} : SaveValue(ty, EnumValue(i))

\* 2^32 + n
Above32(n) == [i \in 1..64 |-> IF i = 33 THEN 1 ELSE BitsOfNat(n, 32)[IF i <= 32 THEN i ELSE 1]]

\* discriminants no variant of ty has
BadDiscs(ty) == IF ty.varint
                THEN {BitsOfNat(ty.len, 64), Above32(0), Above32(1), Above32(ty.len), AllOnes(64)}
                ELSE {BitsOfNat(ty.len, 64), Cast(AllOnes(Width(id_ty(ty.len, FALSE))), 64)}

\* the discriminant disc as a writer of the enum's format puts it
DiscBytes(ty, disc, e) == IF ty.varint THEN varint_save(disc)
                          ELSE push_fixed(Cast(disc, Width(id_ty(ty.len, FALSE))), e)

\* buffer.push_bytes of a discriminant the enum does not have
PushDisc ==
    /\ Alive
    /\ Len(log) < MaxOps
    /\ \E ty \in EnumTypes : \E disc \in BadDiscs(ty) :
         Write(ty, TRUE, disc, DiscBytes(ty, disc, endian))

NextEnum == SaveEnum \/ PushDisc \/ LoadNext

SpecEnum == Init /\ [][NextEnum]_vars

\* the 64-bit number b is at least n
AtLeast(b, n) == (\E i \in 31..Len(b) : b[i] = 1) \/ NatOfBits(SubSeq(b, 1, 30)) >= n

\* C6: loading an enum from a discriminant at or beyond its variant count is
\* an error, for the 1-byte, 2-byte, 4-byte and varint representations.
C6_UnknownVariantIsError ==
    (AlignedRaw /\ Entry.ty.k = "Enum" /\ AtLeast(Entry.val, Entry.ty.len)) => last.st = "err"

RECURSIVE BigEndianValue(_)
\* the number whose base-256 digits, highest first, are bs
BigEndianValue(bs) == IF bs = <<>> THEN 0 ELSE bs[Len(bs)] + 256 * BigEndianValue(SubSeq(bs, 1, Len(bs) - 1))

\* the bytes the claim gives the discriminant of an enum of n variants
DiscWidth(n) == IF n < 256 THEN 1 ELSE IF n < 65536 THEN 2 ELSE 4

\* bs starts with index i as an unsigned integer of w bytes in endianness e
StartsWithFixed(bs, w, i, e) ==
    /\ Len(bs) >= w
    /\ BigEndianValue(IF e = "BE" THEN SubSeq(bs, 1, w) ELSE Reverse(SubSeq(bs, 1, w))) = i

\* bs starts with the unsigned LEB128 form of i
StartsWithVarint(bs, i) ==
    Terminator(bs) > 0 /\ IsLeb128(SubSeq(bs, 1, Terminator(bs)), BitsOfNat(i, 64))

\* C7: save of an enum writes the index of the active variant before any
\* field: in 1 byte for N < 256 variants, in 2 bytes for 256 <= N < 65536, in
\* 4 bytes otherwise, as an unsigned LEB128 varint when the enum is marked
\* varint; the fields of the variant follow.
C7_DiscriminantWidth ==
    \A i \in 1..Len(log) : (~log[i].raw /\ log[i].ty.k = "Enum") =>
        /\ log[i].ty.varint => StartsWithVarint(Written(i), log[i].val.variant)
        /\ ~log[i].ty.varint =>
              StartsWithFixed(Written(i), DiscWidth(log[i].ty.len), log[i].val.variant, endian)
        /\ Len(Written(i)) =
              (IF log[i].ty.varint THEN Terminator(Written(i)) ELSE DiscWidth(log[i].ty.len))
                  + (IF log[i].val.variant = 1 THEN Len(Save(StructC, log[i].val.fields, endian)) ELSE 0)

C7_Witness ==
    /\ \E i \in 1..Len(log) : /\ log[i].ty = EnumN(256, FALSE) /\ ~log[i].raw
                              /\ log[i].val.variant = 255
                              /\ Written(i) = (IF endian = "BE" THEN <<0, 255>> ELSE <<255, 0>>)
    /\ \E i \in 1..Len(log) : /\ log[i].ty = EnumN(65536, FALSE) /\ ~log[i].raw
                              /\ log[i].val.variant = 1 /\ Len(Written(i)) = 22

---------------------------------------------------------------------------
(* Generated types of every shape: a struct with named fields, a tuple     *)
(* struct, an enum variant with named fields and a tuple variant, each     *)
(* with every sequence of normal, unsaved and custom fields.               *)

Classes == {"normal", "unsaved", "custom"}

Containers == {"named", "unnamed", "variant", "tuple_variant"}

\* the field names of tests::D
FieldNames == <<"a", "_b", "c", "d", "e", "f", "g">>

NormalTypes == <<T("String"), T("u32"), T("u8")>>

\* the j-th field of a shape, of class c
ShapeField(c, j) ==
    CASE c = "normal" -> Field(FieldNames[j], NormalTypes[((j - 1) % 3) + 1], <<>>)
      [] c = "unsaved" -> Field(FieldNames[j], T("u32"), <<Unsaved>>)
      [] c = "custom" -> Field(FieldNames[j], T("i32"), <<HelloWorld>>)

ShapeFields(cs) == [j \in 1..Len(cs) |-> ShapeField(cs[j], j)]

ShapeType(con, cs) ==
    IF con \in {"named", "unnamed"}
    THEN [k |-> "Struct", fields |-> ShapeFields(cs), shape |-> con]
    ELSE [k |-> "Enum", len |-> 2, varint |-> FALSE,
          variants |-> <<[fields |-> <<>>, shape |-> "unit"],
                         [fields |-> ShapeFields(cs),
                          shape |-> IF con = "variant" THEN "named" ELSE "unnamed"]>>]

\* the value of the j-th field: no two fields of a shape hold the same value
FieldValue(f, j) == IF f.ty.k = "String" THEN <<64 + j, 48 + j>>
                    ELSE BitsOfNat(150 + j, Width(f.ty.k))

\* the fields of a value of the shape, by name or (tuple shapes) by index
ShapeFieldValues(con, cs) ==
    IF con \in {"named", "variant"}
    THEN [n \in {FieldNames[j] : j \in 1..Len(cs)} |->
             FieldValue(ShapeField(cs[CHOOSE j \in 1..Len(cs) : FieldNames[j] = n],
                                   CHOOSE j \in 1..Len(cs) : FieldNames[j] = n),
                        CHOOSE j \in 1..Len(cs) : FieldNames[j] = n)]
    ELSE [i \in 0..(Len(cs) - 1) |-> FieldValue(ShapeField(cs[i + 1], i + 1), i + 1)]

ShapeValue(con, cs) == IF con \in {"named", "unnamed"} THEN ShapeFieldValues(con, cs)
                       ELSE [fields |-> ShapeFieldValues(con, cs), variant |-> 1]

\* the fields a generated type declares
Declared(ty) == IF ty.k = "Struct" THEN Len(ty.fields) ELSE Len(ty.variants[2].fields)

RECURSIVE DeclaredIn(_)
DeclaredIn(l) == IF l = <<>> THEN 0 ELSE Declared(l[1].ty) + DeclaredIn(Tail(l))

SaveShape ==
    /\ Len(log) < MaxShapes
    /\ \E con \in Containers : \E n \in 0..(MaxFields - DeclaredIn(log)) :
         \E cs \in [1..n -> Classes] : SaveValue(ShapeType(con, cs), ShapeValue(con, cs))

NextShape == SaveShape \/ LoadNext

SpecShape == Init /\ [][NextShape]_vars

\* the statements of the generated save and load of a struct or of the
\* variant with fields
SaveStmts(ty) == IF ty.k = "Struct" THEN derive_struct(ty).save ELSE variant_save(VariantOf(ty, 1))

LoadStmts(ty) == IF ty.k = "Struct" THEN derive_struct(ty).load ELSE variant_load(VariantOf(ty, 1))

IsDecoder(s) == s.op # "default"

\* the field a statement is for and the codec it runs: the field type's
\* Savable impl, or the hello/world pair
Codec(s) == [field |-> s.name,
             by |-> IF s.op = "custom" /\ s.fn \in {"hello", "world"} THEN HelloWorld
                    ELSE IF s.op = "custom" THEN s.fn ELSE s.ty]

\* the declared fields under the names the generated code gives them
DeclFields(ty) ==
    IF ty.k = "Struct" THEN (IF ty.shape = "unnamed" THEN Enumerate(ty.fields) ELSE ty.fields)
    ELSE VariantFields(ty.variants[2])

HasUnsaved(f) == \E i \in 1..Len(f.attrs) : f.attrs[i] = Unsaved

FieldsOf(ty, v) == IF ty.k = "Struct" THEN v ELSE v.fields

\* C5: in every generated struct and enum variant, whatever the mix and order
\* of normal, unsaved and custom fields, save runs the same field codecs in
\* the same order as load, the unsaved fields being in neither; so each saved
\* field comes back from the bytes its own encoder wrote.
C5_SaveAndLoadOrder ==
    /\ \A i \in 1..Len(log) :
         /\ MapSeq(SaveStmts(log[i].ty), Codec)
                = MapSeq(SelectSeq(LoadStmts(log[i].ty), IsDecoder), Codec)
         /\ \A j \in 1..Len(SaveStmts(log[i].ty)) :
                SaveStmts(log[i].ty)[j].op = "custom" => SaveStmts(log[i].ty)[j].fn = "hello"
         /\ \A j \in 1..Len(LoadStmts(log[i].ty)) :
                LoadStmts(log[i].ty)[j].op = "custom" => LoadStmts(log[i].ty)[j].fn = "world"
         /\ {SaveStmts(log[i].ty)[j].name : j \in 1..Len(SaveStmts(log[i].ty))}
                = {f.name : f \in {g \in {DeclFields(log[i].ty)[j] : j \in 1..Declared(log[i].ty)} :
                                      ~HasUnsaved(g)}}
         /\ Len(SaveStmts(log[i].ty))
                = Cardinality({j \in 1..Declared(log[i].ty) : ~HasUnsaved(DeclFields(log[i].ty)[j])})
    /\ Aligned =>
         /\ last.st = "ok"
         /\ last.to = Entry.to
         /\ \A j \in 1..Declared(Entry.ty) :
              ~HasUnsaved(DeclFields(Entry.ty)[j]) =>
                  FieldsOf(Entry.ty, last.val)[DeclFields(Entry.ty)[j].name]
                      = FieldsOf(Entry.ty, Entry.val)[DeclFields(Entry.ty)[j].name]

C5_Witness ==
    /\ Aligned /\ Entry.ty = ShapeType("named", <<"custom", "unsaved", "normal">>)
    /\ last.st = "ok" /\ last.to = Entry.to
    /\ last.val.a = Entry.val.a /\ last.val.c = Entry.val.c /\ last.val._b # Entry.val._b
    /\ MapSeq(SaveStmts(Entry.ty), Codec)
           = <<[field |-> "c", by |-> T("u8")], [field |-> "a", by |-> HelloWorld]>>

---------------------------------------------------------------------------
(* Strings behind a one-byte length (custom::string8_save/string8_load).   *)

\* a field saved by custom::string8_save and loaded by custom::string8_load,
\* as the field of tests::ShortString
String8 == [k |-> "custom", save |-> "string8_save", load |-> "string8_load"]

\* strings of 2, 255, 256, 260 and 300 bytes, and strings whose 255th and
\* 256th bytes are the two bytes of one character
Strings8 == {Hi, Rep(99, 255), Rep(99, 256), Rep(99, 260), Rep(99, 300),
             Rep(99, 253) \o Eacute, Rep(99, 254) \o Eacute, Rep(99, 254) \o Eacute \o Hi}

SaveString8 == \E s \in Strings8 : SaveValue(String8, s)

NextString8 == SaveString8 \/ LoadNext

SpecString8 == Init /\ [][NextString8]_vars

\* C11: string8_save of a string longer than 255 bytes writes the byte 255
\* and the first 255 bytes of the string, 256 bytes in all, and string8_load
\* of them succeeds with exactly those 255 bytes.
C11_String8Truncates ==
    /\ \A i \in 1..Len(log) :
         (log[i].ty = String8 /\ Len(log[i].val) > 255) =>
             Written(i) = <<255>> \o SubSeq(log[i].val, 1, 255)
    /\ (Aligned /\ Entry.ty = String8 /\ Len(Entry.val) > 255) =>
           (last.st = "ok" /\ last.val = SubSeq(Entry.val, 1, 255))

---------------------------------------------------------------------------
(* Unsaved fields: records and enum variants that differ in them only.     *)

\* tests::B
StructB == [k |-> "Struct", fields |-> FieldsC, shape |-> "unnamed"]

\* a value of tests::B / the fields of E::B
TupleB(a, b, c) == [i \in 0..2 |-> <<a, b, c>>[i + 1]]

UnsavedValues == {Zero(32), BitsOfNat(123, 32), AllOnes(32)}

SaveUnsaved ==
    \E a \in {Hi, Eacute} : \E b \in UnsavedValues :
        \/ SaveValue(StructC, ValueC(a, b, Minus123))
        \/ SaveValue(StructB, TupleB(a, b, Minus123))
        \/ SaveValue(EnumE, [fields |-> TupleB(a, b, Minus123), variant |-> 1])
        \/ SaveValue(EnumE, [fields |-> ValueC(a, b, Minus123), variant |-> 2])

NextUnsaved == SaveUnsaved \/ LoadNext

SpecUnsaved == Init /\ [][NextUnsaved]_vars

\* the declared fields of the struct, or of the active variant of the value
FieldsAt(ty, v) ==
    IF ty.k = "Struct" THEN (IF ty.shape = "unnamed" THEN Enumerate(ty.fields) ELSE ty.fields)
    ELSE VariantFields(VariantOf(ty, v.variant))

\* entries i and j hold values of one type (and variant) that agree on every
\* field without #[unsaved]
DiffersOnlyInUnsaved(i, j) ==
    /\ log[i].ty = log[j].ty
    /\ log[i].ty.k = "Enum" => log[i].val.variant = log[j].val.variant
    /\ \A n \in 1..Len(FieldsAt(log[i].ty, log[i].val)) :
         LET f == FieldsAt(log[i].ty, log[i].val)[n] IN
         ~HasUnsaved(f) => FieldsOf(log[i].ty, log[i].val)[f.name] = FieldsOf(log[j].ty, log[j].val)[f.name]

RECURSIVE SavedLen(_, _, _)
\* the bytes the encoders of the fields without #[unsaved] write, in all
SavedLen(fs, vs, e) ==
    IF fs = <<>> THEN 0
    ELSE (IF HasUnsaved(fs[1]) THEN 0
          ELSE IF filter_custom(fs[1]) THEN Len(custom_save(get_custom(fs[1]).save, vs[fs[1].name], e))
          ELSE Len(Save(fs[1].ty, vs[fs[1].name], e)))
         + SavedLen(Tail(fs), vs, e)

\* the bytes of the discriminant of an enum value
DiscLen(ty, v) ==
    IF ty.k # "Enum" THEN 0
    ELSE IF ty.varint THEN Len(varint_save(BitsOfNat(v.variant, 64)))
    ELSE Width(id_ty(ty.len, FALSE)) \div 8

IsDerived(ty) == ty.k \in {"Struct", "Enum"}

\* C12: an unsaved field is neither written nor read: records or enum
\* variants that differ in their unsaved fields only are saved as the same
\* bytes, and load moves the read cursor by what the discriminant and the
\* other fields take.
C12_UnsavedNeverInBuffer ==
    /\ \A i, j \in 1..Len(log) :
         (~log[i].raw /\ ~log[j].raw /\ IsDerived(log[i].ty) /\ DiffersOnlyInUnsaved(i, j))
             => Written(i) = Written(j)
    /\ (Aligned /\ IsDerived(Entry.ty)) =>
           last.to - last.from = DiscLen(Entry.ty, Entry.val)
               + SavedLen(FieldsAt(Entry.ty, Entry.val), FieldsOf(Entry.ty, Entry.val), endian)

C12_Witness ==
    /\ Len(log) = 2 /\ log[1].ty = EnumE /\ log[1].val.variant = 1
    /\ DiffersOnlyInUnsaved(1, 2) /\ log[1].val # log[2].val
    /\ Written(1) = Written(2)
    /\ Aligned /\ last.idx = 2 /\ last.st = "ok" /\ last.to - last.from = 19

---------------------------------------------------------------------------
(* Option and Result: the tag byte.                                        *)

OptionU16 == OptionOf(T("u16"))

ResultU16 == ResultOf(T("u16"), T("u8"))

\* the values of the two types a session saves
Tagged == <<Pair(OptionU16, None), Pair(OptionU16, Some(X1000(16))),
            Pair(OptionU16, Some(AllOnes(16))),
            Pair(ResultU16, OkV(X1000(16))), Pair(ResultU16, ErrV(BitsOfNat(7, 8)))>>

SaveTagged == \E i \in 1..Len(Tagged) : SaveValue(Tagged[i].ty, Tagged[i].v)

\* ByteBuffer::from_bytes of a foreign buffer: any tag byte, then two bytes
FromTag ==
    /\ log = <<>>
    /\ \E ty \in {OptionU16, ResultU16} : \E tag \in 0..255 : PushRaw(ty, <<tag, 0, 16>>)

NextTagged == SaveTagged \/ FromTag \/ LoadNext

SpecTagged == Init /\ [][NextTagged]_vars

\* C13: Option is saved as the byte 0 alone or as the byte 1 and the value,
\* Result as the byte 0 and the Ok value or the byte 1 and the Err value, and
\* the load of either fails on every other tag byte.
C13_TagByte ==
    /\ \A i \in 1..Len(log) :
         /\ (~log[i].raw /\ log[i].ty.k = "Option") =>
                Written(i) = (IF log[i].val = None THEN <<0>>
                              ELSE <<1>> \o Save(log[i].ty.t, log[i].val.v, endian))
         /\ (~log[i].raw /\ log[i].ty.k = "Result") =>
                Written(i) = (IF log[i].val.tag = "Ok"
                              THEN <<0>> \o Save(log[i].ty.t, log[i].val.v, endian)
                              ELSE <<1>> \o Save(log[i].ty.e, log[i].val.v, endian))
    /\ (AlignedRaw /\ Entry.ty.k \in {"Option", "Result"} /\ Entry.val[1] \notin {0, 1})
           => last.st = "err"
    /\ (Aligned /\ Entry.ty.k \in {"Option", "Result"})
           => (last.st = "ok" /\ last.val = Entry.val)

C13_Witness ==
    /\ Len(log) = 2 /\ log[1].raw /\ log[1].ty = ResultU16 /\ log[1].val[1] = 255
    /\ log[2].ty = OptionU16 /\ log[2].val = Some(X1000(16))
    /\ Written(2) = <<1>> \o Save(T("u16"), X1000(16), endian)
    /\ last.idx = 1 /\ last.st = "err"

---------------------------------------------------------------------------
(* Fixed-size arrays.                                                      *)

\* the array of tests::test_array: [1, 2, .., 15] as [i32; 15]
Array15 == [i \in 1..15 |-> BitsOfNat(i, 32)]

Arrays == <<Pair(ArrayOf(T("i32"), 15), Array15),
            Pair(ArrayOf(T("u16"), 3), <<X1000(16), Zero(16), AllOnes(16)>>),
            Pair(ArrayOf(T("u16"), 3), <<AllOnes(16), X1000(16), X1000(16)>>),
            Pair(ArrayOf(T("u8"), 0), <<>>),
            Pair(ArrayOf(T("bool"), 2), <<TRUE, FALSE>>),
            Pair(ArrayOf(T("String"), 2), <<Hi, <<>> >>)>>

SaveArray == \E i \in 1..Len(Arrays) : SaveValue(Arrays[i].ty, Arrays[i].v)

NextArray == SaveArray \/ LoadNext

SpecArray == Init /\ [][NextArray]_vars

\* the bytes an element of a fixed-width type takes
ElemBytes(t) == IF t.k = "bool" THEN 1 ELSE Width(t.k) \div 8

\* C14: [T; N] is saved as its N elements in index order and nothing else, so
\* N elements of k bytes take N * k bytes, and load reads the N elements and
\* returns an equal array.
C14_ArrayHasNoLengthPrefix ==
    /\ \A i \in 1..Len(log) :
         (log[i].ty.k = "Array" /\ log[i].ty.t.k # "String") =>
             /\ log[i].to - log[i].from = log[i].ty.n * ElemBytes(log[i].ty.t)
             /\ \A n \in 1..log[i].ty.n :
                  SubSeq(Written(i), (n - 1) * ElemBytes(log[i].ty.t) + 1, n * ElemBytes(log[i].ty.t))
                      = Save(log[i].ty.t, log[i].val[n], endian)
    /\ (Aligned /\ Entry.ty.k = "Array") =>
           /\ last.st = "ok"
           /\ last.to = Entry.to
           /\ Len(last.val) = Entry.ty.n
           /\ last.val = Entry.val

C14_Witness ==
    /\ Aligned /\ Entry.ty = ArrayOf(T("i32"), 15) /\ Entry.to - Entry.from = 60
    /\ last.idx = 2 /\ last.st = "ok" /\ last.val = Array15

---------------------------------------------------------------------------
(* Truncated buffers: where a failing load of a composite stops.           *)

\* struct F { a: u32, #[unsaved] _b: u16, #[custom(save = hello, load = world)] c: i32, d: u16 }
StructF == [k |-> "Struct",
            fields |-> <<Field("a", T("u32"), <<>>), Field("_b", T("u16"), <<Unsaved>>),
                         Field("c", T("i32"), <<HelloWorld>>), Field("d", T("u16"), <<>>)>>,
            shape |-> "named"]

ValueF == [x \in {"a", "_b", "c", "d"} |->
              CASE x = "a" -> Pattern(32) [] x = "_b" -> X1000(16)
                [] x = "c" -> Minus123 [] x = "d" -> AllOnes(16)]

Shorts == <<Pair(TupleOf(<<T("u16"), T("u32"), T("u16")>>), <<X1000(16), Pattern(32), Zero(16)>>),
            Pair(VecOf(T("u16")), <<X1000(16), AllOnes(16)>>),
            Pair(VecOf(T("String")), <<Hi, Eacute>>),
            Pair(StructF, ValueF),
            Pair(TupleOf(<<VecOf(T("u8")), T("u16")>>), <<<<Zero(8), AllOnes(8)>>, X1000(16)>>)>>

SaveShort == \E i \in 1..Len(Shorts) : SaveValue(Shorts[i].ty, Shorts[i].v)

\* the bytes of a saved value with their end cut off, pushed by a writer
\* that was interrupted; a session holds at most one such value
PushTruncated ==
    /\ Alive
    /\ Len(log) < MaxOps
    /\ \A i \in 1..Len(log) : ~log[i].raw
    /\ \E i \in 1..Len(Shorts) : \E cut \in 0..(Len(Save(Shorts[i].ty, Shorts[i].v, endian)) - 1) :
         Write(Shorts[i].ty, TRUE, Shorts[i].v,
               SubSeq(Save(Shorts[i].ty, Shorts[i].v, endian), 1, cut))

NextShort == SaveShort \/ PushTruncated \/ LoadNext

SpecShort == Init /\ [][NextShort]_vars

RECURSIVE Reads(_, _)
RECURSIVE ReadsOfElems(_, _)
RECURSIVE ReadsOfStmts(_, _)
\* the sizes of the reads from the buffer that the load of the saved value v
\* of type ty makes, in order
Reads(ty, v) ==
    CASE ty.k = "String" -> <<4, Len(v)>>
      [] ty.k = "Tuple" -> ReadsOfElems(ty.ts, v)
      [] ty.k = "Vec" -> <<8>> \o ReadsOfElems([i \in 1..Len(v) |-> ty.t], v)
      [] ty.k = "Struct" -> ReadsOfStmts(derive_struct(ty).save, v)
      [] OTHER -> <<ElemBytes(ty)>>

ReadsOfElems(tys, vs) ==
    IF tys = <<>> THEN <<>> ELSE Reads(tys[1], vs[1]) \o ReadsOfElems(Tail(tys), Tail(vs))

ReadsOfStmts(stmts, v) ==
    IF stmts = <<>> THEN <<>>
    ELSE (IF stmts[1].op = "custom" THEN <<4, 4, 4>> ELSE Reads(stmts[1].ty, v[stmts[1].name]))
             \o ReadsOfStmts(Tail(stmts), v)

RECURSIVE SumTo(_, _)
SumTo(reads, n) == IF n = 0 THEN 0 ELSE reads[n] + SumTo(reads, n - 1)

\* the end of the last read that the first cut bytes hold in full
LastBoundary(reads, cut) ==
    CHOOSE b \in {SumTo(reads, n) : n \in 0..Len(reads)} :
        b <= cut /\ \A n \in 0..Len(reads) : SumTo(reads, n) <= cut => SumTo(reads, n) <= b

\* the latest load was of a truncated value at the end of the buffer
AtTruncated == AlignedRaw /\ Entry.to = Len(data)

\* C15: the load of a tuple, a Vec or a derived struct from a buffer that
\* ends inside the value returns the error of the first inner load that
\* fails: no value comes back, and the read cursor stays where the reads
\* before the failing one left it, nothing being read after it.
C15_ShortCircuit ==
    AtTruncated =>
        /\ last.st = "err"
        /\ last.val = <<>>
        /\ last.to - last.from = LastBoundary(Reads(Entry.ty, Entry.val), Entry.to - Entry.from)

C15_Witness ==
    /\ AtTruncated /\ Entry.ty = StructF /\ Entry.to - Entry.from = 3
    /\ last.idx = 2 /\ last.st = "err" /\ last.to = last.from

\* the bytes of the truncated value that its load consumed before it failed
Consumed == LastBoundary(Reads(Entry.ty, Entry.val), Entry.to - Entry.from)

\* C22: when the load of a composite fails part-way the read cursor of the
\* buffer is left where the failing read stopped: what the reads before it
\* consumed stays consumed, and the cursor is not put back to where the load
\* started.
C22_CursorNotRestored ==
    (AtTruncated /\ last.st = "err") =>
        /\ rpos = Entry.from + Consumed
        /\ Consumed > 0 => rpos > last.from

\* a Vec<u16> cut inside its second element: the length and the first
\* element are consumed
C22_Witness ==
    /\ AtTruncated /\ Entry.ty = VecOf(T("u16")) /\ last.st = "err"
    /\ rpos = last.from + 10 /\ Len(data) = rpos + 1

---------------------------------------------------------------------------
(* Foreign buffers: bytes that no save wrote, loaded as a Duration, a       *)
(* SystemTime or a Vec<u64>.                                                *)

Duration == [k |-> "Duration"]

SystemTime == [k |-> "SystemTime"]

VecU64 == VecOf(T("u64"))

\* a quarter of a second, and the last nanosecond of a second
Times == <<[secs |-> Zero(64), nanos |-> BitsOfNat(250000000, 32)],
           [secs |-> X1000(64), nanos |-> BitsOfNat(999999999, 32)]>>

SaveTime == \E ty \in {Duration, SystemTime} : \E i \in 1..Len(Times) : SaveValue(ty, Times[i])

\* seconds and nanoseconds all ones; seconds all ones; nanoseconds all ones;
\* a field cut short; a length of 2^64 - 1; a length of 0; a length of 2 with
\* one element behind it
Foreign(e) == <<Pair(Duration, Rep(255, 12)), Pair(Duration, Rep(255, 8) \o Rep(0, 4)),
                Pair(Duration, Rep(0, 8) \o Rep(255, 4)), Pair(Duration, Rep(255, 11)),
                Pair(SystemTime, Rep(255, 12)), Pair(SystemTime, Rep(255, 8) \o Rep(0, 4)),
                Pair(SystemTime, Rep(0, 12)),
                Pair(VecU64, Rep(255, 8)), Pair(VecU64, Rep(0, 16)),
                Pair(VecU64, push_fixed(BitsOfNat(2, 64), e) \o Rep(7, 8))>>

\* ByteBuffer::from_bytes of a foreign buffer
FromForeign ==
    /\ log = <<>>
    /\ \E i \in 1..Len(Foreign(endian)) : PushRaw(Foreign(endian)[i].ty, Foreign(endian)[i].v)

NextForeign == SaveTime \/ FromForeign \/ LoadNext

SpecForeign == Init /\ [][NextForeign]_vars

\* C16: whatever the bytes in the buffer, a load returns a value or an error
\* and never panics.
C16_LoadNeverPanics == last.idx > 0 => last.st \in {"ok", "err"}

---------------------------------------------------------------------------
(* Instants.  What Instant::save writes depends on two clock readings: the *)
(* system clock, and the time elapsed on the monotonic clock since the     *)
(* instant.                                                                *)

\* SystemTime::now(): a second before the epoch, ten seconds and a quarter
\* after it, and a day in 2026
Walls == <<[secs |-> AllOnes(64), nanos |-> Zero(32)],
           [secs |-> BitsOfNat(10, 64), nanos |-> BitsOfNat(250000000, 32)],
           [secs |-> BitsOfNat(1793700000, 64), nanos |-> BitsOfNat(250000000, 32)]>>

\* Instant::now().duration_since(instant): none, half a second, twenty
\* seconds and a half
Elapsed == <<[secs |-> Zero(64), nanos |-> Zero(32)],
             [secs |-> Zero(64), nanos |-> BitsOfNat(500000000, 32)],
             [secs |-> BitsOfNat(20, 64), nanos |-> BitsOfNat(500000000, 32)]>>

\* instant.save(&mut buffer): the bytes are those of a Duration; a save that
\* panics ends the session with nothing written (last.idx = 0 tells it from
\* a load that panicked)
SaveInstant ==
    /\ Alive
    /\ Len(log) < MaxOps
    /\ \E w \in 1..Len(Walls) : \E l \in 1..Len(Elapsed) :
         IF instant_duration(Walls[w], Elapsed[l]).st = "panic"
         THEN /\ last' = [st |-> "panic", val |-> <<>>, idx |-> 0, from |-> wpos, to |-> wpos]
              /\ UNCHANGED others
              /\ UNCHANGED <<data, rpos, wpos, endian, log, next>>
         ELSE Write(Duration, FALSE, instant_duration(Walls[w], Elapsed[l]).val,
                    duration_save(instant_duration(Walls[w], Elapsed[l]).val, endian))

NextInstant == SaveInstant \/ SaveTime \/ LoadNext

SpecInstant == Init /\ [][NextInstant]_vars

\* C17: save is total: no save of a value, an Instant included, panics.
C17_SaveIsTotal == ~(last.st = "panic" /\ last.idx = 0)

---------------------------------------------------------------------------
(* Tuple-like shapes with unsaved fields.                                  *)

HasUnsavedField(fields) == \E j \in 1..Len(fields) : ~filter(fields[j])

\* a tuple struct, or an enum with a tuple variant, that declares #[unsaved]
TupleWithUnsaved(ty) ==
    \/ ty.k = "Struct" /\ ty.shape = "unnamed" /\ HasUnsavedField(ty.fields)
    \/ /\ ty.k = "Enum"
       /\ \E i \in 1..Len(ty.variants) :
            ty.variants[i].shape = "unnamed" /\ HasUnsavedField(ty.variants[i].fields)

\* C18: the derive fails at generation time for a tuple struct and for an
\* enum with a tuple variant that declare an unsaved field: no such type has
\* an implementation whose save or load runs.
C18_TupleUnsavedRejected ==
    \A i \in 1..Len(log) : TupleWithUnsaved(log[i].ty) => derive_savable(log[i].ty).st = "panic"

---------------------------------------------------------------------------
(* Declarations the macro is run on: structs, enums and unions whose       *)
(* fields carry well-formed, malformed and repeated attributes.            *)

\* #[custom(save = hello)]
CustomOneArg == [meta |-> "list", path |-> "custom",
                 args |-> <<[value |-> "hello", key |-> "save", expr |-> "path"]>>]

\* #[custom(load = world, save = hello)]
CustomSwapped == [meta |-> "list", path |-> "custom",
                  args |-> <<[value |-> "world", key |-> "load", expr |-> "path"],
                             [value |-> "hello", key |-> "save", expr |-> "path"]>>]

\* #[custom(save = "hello", load = world)]
CustomLiteral == [meta |-> "list", path |-> "custom",
                  args |-> <<[value |-> "hello", key |-> "save", expr |-> "lit"],
                             [value |-> "world", key |-> "load", expr |-> "path"]>>]

DeclClasses == {"normal", "unsaved", "custom", "one_arg", "swapped", "literal",
                "duplicate", "unsaved_one_arg"}

DeclAttrs(c) == CASE c = "normal" -> <<>>
                  [] c = "unsaved" -> <<Unsaved>>
                  [] c = "custom" -> <<HelloWorld>>
                  [] c = "one_arg" -> <<CustomOneArg>>
                  [] c = "swapped" -> <<CustomSwapped>>
                  [] c = "literal" -> <<CustomLiteral>>
                  [] c = "duplicate" -> <<HelloWorld, HelloWorld>>
                  [] c = "unsaved_one_arg" -> <<Unsaved, CustomOneArg>>

DeclFieldsOf(cs) == [j \in 1..Len(cs) |-> Field(FieldNames[j], T("i32"), DeclAttrs(cs[j]))]

DeclKinds == {"named", "unnamed", "variant", "tuple_variant", "union"}

Decl(con, cs) ==
    CASE con \in {"named", "unnamed"} -> [k |-> "Struct", fields |-> DeclFieldsOf(cs), shape |-> con]
      [] con = "union" -> [k |-> "Union", fields |-> DeclFieldsOf(cs)]
      [] OTHER -> [k |-> "Enum", len |-> 2, varint |-> FALSE,
                   variants |-> <<[fields |-> <<>>, shape |-> "unit"],
                                  [fields |-> DeclFieldsOf(cs),
                                   shape |-> IF con = "variant" THEN "named" ELSE "unnamed"]>>]

MaxDeclFields == 2

\* #[derive(Savable)] on a declaration: last holds the declaration and
\* whether the macro returned ("ok") or panicked; idx = 0 tells it from a load
Derive ==
    /\ Alive
    /\ \E con \in DeclKinds : \E n \in 0..MaxDeclFields : \E cs \in [1..n -> DeclClasses] :
         last' = [st |-> derive_savable(Decl(con, cs)).st, val |-> Decl(con, cs),
                  idx |-> 0, from |-> rpos, to |-> rpos]
    /\ UNCHANGED others
    /\ UNCHANGED <<data, rpos, wpos, endian, log, next>>

NextDerive == Derive

SpecDerive == Init /\ [][NextDerive]_vars

WellFormedCustom(attr) ==
    /\ Len(attr.args) = 2
    /\ attr.args[1].key = "save" /\ attr.args[2].key = "load"
    /\ attr.args[1].expr = "path" /\ attr.args[2].expr = "path"

\* the field has a malformed custom annotation, or more than one
BadCustom(f) ==
    \/ \E i \in 1..Len(f.attrs) : IsCustomAttr(f.attrs[i]) /\ ~WellFormedCustom(f.attrs[i])
    \/ Len(SelectSeq(f.attrs, IsCustomAttr)) > 1

AllDeclFields(ty) == IF ty.k = "Enum" THEN ty.variants[2].fields ELSE ty.fields

\* C19: the derive fails at generation time for a union and for a field
\* whose custom annotation is malformed or repeated.
C19_BadDeclarationRejected ==
    (last.idx = 0 /\ last.st # "none" /\
        (last.val.k = "Union" \/ \E j \in 1..Len(AllDeclFields(last.val)) : BadCustom(AllDeclFields(last.val)[j])))
        => last.st = "panic"

---------------------------------------------------------------------------
(* Peeks.                                                                  *)

Bytes3 == [n |-> 3, k |-> "Bytes"]

\* one value of every type the Loader has a peek for
SavePeekable ==
    \/ \E k \in FixedKinds : SaveValue(T(k), Pattern(Width(k)))
    \/ SaveValue(T("bool"), TRUE)
    \/ SaveValue(Bytes3, <<1, 2, 3>>)

\* a buffer that ends one byte into a value
PushShort ==
    /\ \A i \in 1..Len(log) : ~log[i].raw
    /\ \/ \E k \in FixedKinds \ {"u8", "i8"} : PushRaw(T(k), <<1>>)
       \/ PushRaw(Bytes3, <<1>>)

\* the peek_* and the pop_* of a type
Peek(ty, d, pos, e) == CASE ty.k = "bool" -> peek_bool(d, pos)
                         [] ty.k = "Bytes" -> peek_bytes(d, pos, ty.n)
                         [] OTHER -> peek_fixed(d, pos, Width(ty.k), e)

Pop(ty, d, pos, e) == CASE ty.k = "bool" -> pop_bool(d, pos)
                        [] ty.k = "Bytes" -> pop_bytes(d, pos, ty.n)
                        [] OTHER -> pop_fixed(d, pos, Width(ty.k), e)

\* buffer.peek_*() for the type of the next entry: next stays
Peeked(r) ==
    /\ rpos' = r.pos
    /\ last' = [st |-> r.st, val |-> r.val, idx |-> next, from |-> rpos, to |-> r.pos]
    /\ UNCHANGED others
    /\ UNCHANGED <<data, wpos, endian, log, next>>

PeekNext == Alive /\ next <= Len(log) /\ Peeked(Peek(log[next].ty, data, rpos, endian))

NextPeek == SavePeekable \/ PushShort \/ PeekNext \/ LoadNext

SpecPeek == Init /\ [][NextPeek]_vars

\* the step is a peek: an outcome is recorded and the entry stays the next
IsPeek == next' = next /\ data' = data /\ last'.idx = next

\* C20: a peek returns what the pop of the same type would return at the
\* cursor, a failure for lack of bytes included, and leaves the cursor where
\* it was.
C20_PeekIsPop ==
    [][IsPeek => /\ last'.st = Pop(log[next].ty, data, rpos, endian).st
                 /\ last'.val = Pop(log[next].ty, data, rpos, endian).val
                 /\ rpos' = rpos]_vars

\* a peek failed for lack of bytes after a value had been loaded
C20_Witness ==
    /\ last.idx = next /\ last.idx > 1
    /\ last.st = "err"
    /\ rpos = log[next].from /\ rpos > 0

---------------------------------------------------------------------------
(* The length-capped custom codecs.                                        *)

String16 == [k |-> "custom", save |-> "string16_save", load |-> "string16_load"]

\* a field saved by custom::vec8_save, vec16_save or vec32_save
VecN(w, t) == [n |-> w, k |-> "VecN", t |-> t]

\* struct Name { #[custom(save = string8_save, load = string8_load)] a: String }
Name8 == [k |-> "Struct",
          fields |-> <<Field("a", T("String"), <<Custom("string8_save", "string8_load")>>)>>,
          shape |-> "named"]

NameOf(s) == [f \in {"a"} |-> s]

Count(n) == [i \in 1..n |-> BitsOfNat(i % 256, 8)]

\* inputs at, one over and well over the cap of one byte, and short ones
CappedInputs ==
    <<Pair(String8, Hi), Pair(String8, Rep(99, 255)), Pair(String8, Rep(99, 256)),
      Pair(String8, Rep(99, 254) \o Eacute),
      Pair(String16, Hi), Pair(String16, Rep(99, 300)),
      Pair(VecN(8, T("u8")), Count(3)), Pair(VecN(8, T("u8")), Count(255)),
      Pair(VecN(8, T("u8")), Count(256)), Pair(VecN(8, T("u16")), [i \in 1..300 |-> X1000(16)]),
      Pair(VecN(8, Name8), <<NameOf(Rep(99, 254) \o Eacute), NameOf(Hi)>>),
      Pair(VecN(16, T("u8")), Count(3)), Pair(VecN(32, T("u16")), <<X1000(16), AllOnes(16)>>),
      Pair(T("u16"), X1000(16))>>

\* the cap of a two-byte length
Cap16 == 65535

SaveCapped ==
    /\ Len(data) <= Cap16
    /\ \E i \in 1..Len(CappedInputs) : SaveValue(CappedInputs[i].ty, CappedInputs[i].v)

\* inputs over the cap of two bytes, each alone in its buffer
LongInputs ==
    <<Pair(String16, Rep(99, 65536)), Pair(String16, Rep(99, 65534) \o Eacute),
      Pair(VecN(16, T("u8")), Count(65536))>>

SaveLong ==
    /\ log = <<>>
    /\ \E i \in 1..Len(LongInputs) : SaveValue(LongInputs[i].ty, LongInputs[i].v)

NextCapped == SaveCapped \/ SaveLong \/ LoadNext

SpecCapped == Init /\ [][NextCapped]_vars

IsCapped(ty) == ty \in {String8, String16} \/ ty.k = "VecN"

\* C21: the load of a length-capped codec moves the read cursor by exactly
\* the bytes its save wrote, for inputs over the cap too.
C21_CappedLoadConsumesWhatSaveWrote ==
    (Aligned /\ IsCapped(Entry.ty)) => last.to - last.from = Entry.to - Entry.from

---------------------------------------------------------------------------
(* The raw custom codecs: a sequence with no length in front of it.        *)

RawVec(t) == [k |-> "RawVec", t |-> t]

RawBytes == [k |-> "RawBytes"]

\* struct U { #[unsaved] _b: u32 }
StructU == [k |-> "Struct", fields |-> <<Field("_b", T("u32"), <<Unsaved>>)>>, shape |-> "named"]

ValueU == [x \in {"_b"} |-> X1000(32)]

RawInputs ==
    <<Pair(RawBytes, <<1, 2, 3>>), Pair(RawBytes, <<>>),
      Pair(RawVec(T("u16")), <<X1000(16), AllOnes(16)>>), Pair(RawVec(T("u8")), <<Pattern(8)>>),
      Pair(RawVec(T("String")), <<Hi, Eacute>>),
      Pair(RawVec(OptionOf(T("u16"))), <<Some(X1000(16)), None>>),
      Pair(RawVec(StructA), <<<<>>, <<>>>>), Pair(RawVec(StructU), <<ValueU>>),
      Pair(T("u16"), X1000(16)), Pair(T("u8"), Pattern(8))>>

SaveRaw == \E i \in 1..Len(RawInputs) : SaveValue(RawInputs[i].ty, RawInputs[i].v)

\* ByteBuffer::from_bytes of a foreign buffer: three bytes, or an Option tag
\* that is no tag and two more bytes
FromRaw ==
    /\ log = <<>>
    /\ \E bs \in {<<1, 2, 3>>, <<7, 0, 16>>, <<>>} :
         \E ty \in {RawBytes, RawVec(T("u16")), RawVec(T("u8")), RawVec(OptionOf(T("u16"))),
                    RawVec(StructA)} : PushRaw(ty, bs)

NextRaw == SaveRaw \/ FromRaw \/ LoadNext

SpecRaw == Init /\ [][NextRaw]_vars

IsRawCodec(ty) == ty.k \in {"RawVec", "RawBytes"}

\* C23: when raw_bytes_load or raw_vec_load has returned, no unread byte is
\* left in the buffer (nothing having been written behind the sequence).
C23_RawConsumesToEnd ==
    (last.idx > 0 /\ last.idx = Len(log) /\ IsRawCodec(Entry.ty) /\ last.st = "ok")
        => last.to = Len(data)

\* C24: raw_vec_load ends and returns a vector for every buffer and every
\* element type, those whose load takes no byte included.
C24_RawVecLoadTerminates ==
    (last.idx > 0 /\ Entry.ty.k = "RawVec") => last.st = "ok"

\* ---------------------------------------------------------------------
\* State: a value behind a RwLock with a version counter, shared by the
\* clones held by several threads
\* ---------------------------------------------------------------------

Writers == {1, 2}

Reader == 3

Threads == 1..3

MaxWrites == 2

\* u64::MAX, one below zero in wrapping arithmetic
U64Max == -1

\* a lock handing out the write guard whoever holds one already
rwlock_write_shared(holder) == TRUE

\* RwLock::write returns once no other guard is held
rwlock_write(holder) == holder = 0

\* RwLock::read returns once no write guard is held; the guard of
\* `state.read()` in a statement is released at the end of the statement
rwlock_read(holder) == holder = 0

is_outdated(t) == version # local_version[t]

force_outdated(v) == IF v = 0 THEN U64Max ELSE 0

InWrite == {t \in Writers : pc[t] # "idle"}

\* State::write / MappedState::write: take the write lock, then build the
\* guard around it and the pointer to the counter
StateWrite(t) ==
    /\ pc[t] = "idle"
    /\ dropped + Cardinality(InWrite) < MaxWrites
    /\ rwlock_write(writer)
    /\ writer' = t
    /\ pc' = [pc EXCEPT ![t] = "held"]
    /\ UNCHANGED <<contents, version, local_version, tmp, seen, dropped>>
    /\ UNCHANGED notState

\* the holder changes the value through DerefMut
Mutate(t) ==
    /\ pc[t] = "held"
    /\ contents' = contents + 1
    /\ pc' = [pc EXCEPT ![t] = "drop"]
    /\ UNCHANGED <<version, writer, local_version, tmp, seen, dropped>>
    /\ UNCHANGED notState

\* Drop::drop, `*self.ptr += 1` on a plain u64: the read ...
DropLoad(t) ==
    /\ pc[t] = "drop"
    /\ tmp' = [tmp EXCEPT ![t] = version]
    /\ pc' = [pc EXCEPT ![t] = "store"]
    /\ UNCHANGED <<contents, version, writer, local_version, seen, dropped>>
    /\ UNCHANGED notState

\* ... and the write back
DropStore(t) ==
    /\ pc[t] = "store"
    /\ version' = tmp[t] + 1
    /\ dropped' = dropped + 1
    /\ pc' = [pc EXCEPT ![t] = "unlock"]
    /\ UNCHANGED <<contents, writer, local_version, tmp, seen>>
    /\ UNCHANGED notState

\* after drop's body the guard's fields are dropped: the RwLockWriteGuard
\* releases the lock
Unlock(t) ==
    /\ pc[t] = "unlock"
    /\ writer' = 0
    /\ pc' = [pc EXCEPT ![t] = "idle"]
    /\ UNCHANGED <<contents, version, local_version, tmp, seen, dropped>>
    /\ UNCHANGED notState

\* when!([state] => ...): the body runs if the clone is outdated
When(t) ==
    /\ pc[t] = "when"
    /\ pc' = [pc EXCEPT ![t] = IF is_outdated(t) THEN "body" ELSE "update"]
    /\ UNCHANGED <<contents, version, writer, local_version, tmp, seen, dropped>>
    /\ UNCHANGED notState

\* the body reads the state
Body(t) ==
    /\ pc[t] = "body"
    /\ rwlock_read(writer)
    /\ seen' = [seen EXCEPT ![t] = contents]
    /\ pc' = [pc EXCEPT ![t] = "update"]
    /\ UNCHANGED <<contents, version, writer, local_version, tmp, dropped>>
    /\ UNCHANGED notState

\* update!([state]): State::update
Update(t) ==
    /\ pc[t] = "update"
    /\ local_version' = [local_version EXCEPT ![t] = version]
    /\ pc' = [pc EXCEPT ![t] = "when"]
    /\ UNCHANGED <<contents, version, writer, tmp, seen, dropped>>
    /\ UNCHANGED notState

WriterStep(t) == StateWrite(t) \/ Mutate(t) \/ DropLoad(t) \/ DropStore(t) \/ Unlock(t)

ReaderStep == When(Reader) \/ Body(Reader) \/ Update(Reader)

\* State::new(0), cloned to every thread, the original forced outdated
\* before the clones or not
InitState ==
    /\ NoBuffer /\ last = NoLoad /\ NoCell /\ NoPar /\ NoTarget
    /\ contents = 0 /\ version = 0 /\ writer = 0 /\ dropped = 0
    /\ pc = [t \in Threads |-> IF t = Reader THEN "when" ELSE "idle"]
    /\ \E forced \in BOOLEAN :
           local_version = [t \in Threads |-> IF forced THEN force_outdated(0) ELSE 0]
    /\ tmp = [t \in Threads |-> 0]
    /\ seen = [t \in Threads |-> 0]

NextState ==
    \/ \E t \in Writers : StateWrite(t)
    \/ \E t \in Writers : Mutate(t)
    \/ \E t \in Writers : DropLoad(t)
    \/ \E t \in Writers : DropStore(t)
    \/ \E t \in Writers : Unlock(t)
    \/ When(Reader)
    \/ Body(Reader)
    \/ Update(Reader)

SpecState == InitState /\ [][NextState]_vars

\* every thread that can take a step eventually takes one
SpecStateLive ==
    /\ InitState /\ [][NextState]_vars
    /\ \A t \in Writers : WF_vars(WriterStep(t))
    /\ WF_vars(ReaderStep)

\* C25: the version counter equals the number of write guards dropped, and
\* a guard is dropped (its increment read and written back) while its
\* thread holds the write lock.
C25_VersionCountsDrops ==
    /\ version = dropped
    /\ \A t \in Writers : pc[t] \in {"held", "drop", "store", "unlock"} => writer = t

\* two guards were dropped by different threads competing for the lock
C25_Witness ==
    /\ dropped = 2 /\ version = 2 /\ contents = 2
    /\ pc[1] = "unlock" /\ pc[2] = "idle" /\ tmp[2] = 0 /\ tmp[1] = 1

\* C26: after every completed write the reader eventually runs the body of
\* its when! with the value of that write or a later one.
C26_EveryWriteObserved ==
    \A n \in 1..MaxWrites : (dropped = n) ~> (seen[Reader] >= n)

\* ---------------------------------------------------------------------
\* InitOnce and CreateOnce: a value set once, shared by threads
\* ---------------------------------------------------------------------

Callers == 1..2

MaxCalls == 2

\* a swap that tells every caller the flag was clear
swap_stale(flag) == FALSE

\* AtomicBool::swap(true, SeqCst): the previous value, read and replaced in
\* one step
swap(flag) == flag

\* try_init / try_create up to call_once: the flag is set before any
\* closure runs; a caller finding it set returns Err(AlreadyInitialized)
TrySwap(t) ==
    /\ at[t] = "idle"
    /\ calls[t] < MaxCalls
    /\ calls' = [calls EXCEPT ![t] = @ + 1]
    /\ init_called' = TRUE
    /\ IF swap(init_called)
         THEN errs' = errs + 1 /\ at' = at
         ELSE errs' = errs /\ at' = [at EXCEPT ![t] = "call_once"]
    /\ UNCHANGED <<cellKind, once, slot, oks, ran, obs>>
    /\ UNCHANGED <<buffer, state, par, target>>

\* Once::call_once: the first caller runs its closure, a caller arriving
\* while a closure runs waits, a caller arriving later returns at once
CallOnce(t) ==
    /\ at[t] = "call_once"
    /\ once # "running"
    /\ IF once = "new"
         THEN once' = "running" /\ ran' = ran + 1 /\ at' = [at EXCEPT ![t] = "closure"]
         ELSE once' = once /\ ran' = ran /\ at' = [at EXCEPT ![t] = "return"]
    /\ UNCHANGED <<cellKind, init_called, slot, calls, oks, errs, obs>>
    /\ UNCHANGED <<buffer, state, par, target>>

\* the closure ends: f(value) has initialised the value in place, or the
\* value f() made has been put into the slot
ClosureEnd(t) ==
    /\ at[t] = "closure"
    /\ slot' = "set"
    /\ once' = "done"
    /\ at' = [at EXCEPT ![t] = "return"]
    /\ UNCHANGED <<cellKind, init_called, calls, oks, errs, ran, obs>>
    /\ UNCHANGED <<buffer, state, par, target>>

\* Ok(())
ReturnOk(t) ==
    /\ at[t] = "return"
    /\ oks' = oks + 1
    /\ at' = [at EXCEPT ![t] = "idle"]
    /\ UNCHANGED <<cellKind, init_called, once, slot, calls, errs, ran, obs>>
    /\ UNCHANGED <<buffer, state, par, target>>

\* initialized() / created() on another thread
Initialized ==
    /\ obs' = <<"initialized", init_called, once, slot>>
    /\ obs' # obs
    /\ UNCHANGED <<cellKind, init_called, once, slot, at, calls, oks, errs, ran>>
    /\ UNCHANGED <<buffer, state, par, target>>

\* Deref on another thread: the check of init_called, then the value slot
\* as it is
DerefCell ==
    /\ obs' = <<"deref", init_called, once, slot>>
    /\ obs' # obs
    /\ UNCHANGED <<cellKind, init_called, once, slot, at, calls, oks, errs, ran>>
    /\ UNCHANGED <<buffer, state, par, target>>

\* InitOnce::new(value) or CreateOnce::new()
InitCell ==
    /\ NoBuffer /\ last = NoLoad /\ NoState /\ NoPar /\ NoTarget
    /\ cellKind \in {"InitOnce", "CreateOnce"}
    /\ init_called = FALSE /\ once = "new" /\ slot = "unset"
    /\ at = [t \in Callers |-> "idle"]
    /\ calls = [t \in Callers |-> 0]
    /\ oks = 0 /\ errs = 0 /\ ran = 0
    /\ obs = <<"none", FALSE, "new", "unset">>

NextCell ==
    \/ \E t \in Callers : TrySwap(t)
    \/ \E t \in Callers : CallOnce(t)
    \/ \E t \in Callers : ClosureEnd(t)
    \/ \E t \in Callers : ReturnOk(t)
    \/ Initialized
    \/ DerefCell

SpecCell == InitCell /\ [][NextCell]_vars

\* C27: when initialized() / created() has returned true, or Deref has
\* passed its check, the initialising closure had run to completion and the
\* value slot was filled.
C27_TrueMeansInitialised ==
    (obs[1] \in {"initialized", "deref"} /\ obs[2]) => (obs[3] = "done" /\ obs[4] = "set")

\* no call is between its swap and its return
Quiet == \A t \in Callers : at[t] = "idle"

MaxVec == 5

MaxCpus == 6

MaxThreshold == 2

\* the vectors given to run_parallel
Vectors == UNION {[1..n -> 0..1] : n \in 0..MaxVec}

\* the functions given to run_parallel, none of which panics
Fns == {"succ", "twice"}

Apply(f, x) == IF f = "succ" THEN x + 1 ELSE 2 * x

\* chunk.into_iter().map(f).collect()
MapFn(f, v) == [i \in 1..Len(v) |-> Apply(f, v[i])]

\* split_into with n >= len: `parts[len - i - 1].push(self.pop().unwrap())`
\* for i in 0..len
RECURSIVE deal(_, _, _, _)
deal(parts, v, i, len) ==
    IF i = len THEN parts
    ELSE deal([parts EXCEPT ![len - i] = Append(@, v[Len(v)])],
              SubSeq(v, 1, Len(v) - 1), i + 1, len)

\* split_into with n < len: every part pops its length off the reversed
\* vector, the first `extra` parts one element more
RECURSIVE fill(_, _, _, _, _)
fill(parts, rev, k, length, extra) ==
    IF k > Len(parts) THEN parts
    ELSE fill([parts EXCEPT ![k] =
                  Reverse(SubSeq(rev, Len(rev) - (length + IF extra > 0 THEN 1 ELSE 0) + 1, Len(rev)))],
              SubSeq(rev, 1, Len(rev) - (length + IF extra > 0 THEN 1 ELSE 0)),
              k + 1, length, IF extra > 0 THEN extra - 1 ELSE 0)

split_into(v, n) ==
    IF n <= 0 THEN Panic(0)
    ELSE IF n = 1 THEN Ok(<<v>>, 0)
    ELSE IF n >= Len(v) THEN Ok(deal([k \in 1..n |-> <<>>], v, 0, Len(v)), 0)
    ELSE Ok(fill([k \in 1..n |-> <<>>], Reverse(v), 1, Len(v) \div n, Len(v) % n), 0)

\* one thread per chunk, joined in the order they were spawned, each
\* result appended
RECURSIVE join_all(_, _, _)
join_all(f, chunks, k) ==
    IF k > Len(chunks) THEN <<>> ELSE MapFn(f, chunks[k]) \o join_all(f, chunks, k + 1)

\* `num_cpus::get() - 2` in usize: below zero it panics in a debug build
\* and wraps in a release build, where Vec::with_capacity of the wrapped
\* count panics in split_into
run_parallel(v, f, threshold, cpus) ==
    IF Len(v) <= threshold THEN Ok(MapFn(f, v), 0)
    ELSE IF cpus < 2 THEN Panic(0)
    ELSE Try(split_into(v, cpus - 2), LAMBDA r : Ok(join_all(f, r.val, 1), 0))

SetThreshold(n) ==
    /\ THRESHOLD # n
    /\ THRESHOLD' = n
    /\ UNCHANGED run
    /\ UNCHANGED <<buffer, state, cell, target>>

RunParallel(v, f, cpus) ==
    /\ run' = <<v, f, cpus, run_parallel(v, f, THRESHOLD, cpus)>>
    /\ UNCHANGED THRESHOLD
    /\ UNCHANGED <<buffer, state, cell, target>>

InitPar == NoBuffer /\ last = NoLoad /\ NoState /\ NoCell /\ NoPar /\ NoTarget

NextPar ==
    \/ \E n \in 0..MaxThreshold : SetThreshold(n)
    \/ \E v \in Vectors, f \in Fns, cpus \in 1..MaxCpus : RunParallel(v, f, cpus)

SpecPar == InitPar /\ [][NextPar]_vars

\* C29: run_parallel returns Ok(r) with r as long as the input and
\* r[i] = f(input[i]) at every index, whatever the vector, the threshold
\* and the number of CPUs.
C29_RunParallelMapsInOrder ==
    run # <<>> =>
        /\ run[4].st = "ok"
        /\ run[4].val = MapFn(run[2], run[1])

\* ---------------------------------------------------------------------
\* Savable2: loading into an existing value
\* ---------------------------------------------------------------------

\* Savable2::save: the primitives push themselves, an Option its tag and
\* then its content
RECURSIVE save2(_, _, _)
save2(ty, v, e) ==
    IF ty.k = "Option"
      THEN (IF v.tag = "None" THEN <<0>> ELSE <<1>> \o save2(ty.t, v.v, e))
      ELSE prim_save(ty.k, v, e)

\* Savable2::load_into, as the value the target holds afterwards: a
\* primitive is overwritten by what was popped; an Option is overwritten
\* only when the tag is 1, with a default value loaded into
RECURSIVE load_into(_, _, _, _, _)
load_into(ty, self, d, pos, e) ==
    IF ty.k = "Option"
      THEN Try(pop_fixed(d, pos, 8, e), LAMBDA tag :
               IF NatOfBits(tag.val) = 1
                 THEN MapOk(load_into(ty.t, Default(ty.t), d, tag.pos, e), Some)
                 ELSE Ok(self, tag.pos))
      ELSE prim_load(ty.k, d, pos, e)

\* Savable2Convenience::load_static
load_static(ty, d, pos, e) == load_into(ty, Default(ty), d, pos, e)

OptionU8 == OptionOf(T("u8"))

OptionOptionU8 == OptionOf(OptionU8)

\* the Options saved, with a value a target can hold beforehand
Options2 ==
    << [v |-> None, ty |-> OptionU8],
       [v |-> Some(BitsOfNat(7, 8)), ty |-> OptionU8],
       [v |-> Some(Zero(8)), ty |-> OptionU8],
       [v |-> None, ty |-> OptionOf(T("u16"))],
       [v |-> Some(BitsOfNat(513, 16)), ty |-> OptionOf(T("u16"))],
       [v |-> None, ty |-> OptionOptionU8],
       [v |-> Some(None), ty |-> OptionOptionU8],
       [v |-> Some(Some(BitsOfNat(7, 8))), ty |-> OptionOptionU8] >>

\* value.save(&mut buffer) by Savable2
SaveOption2 ==
    \E i \in 1..Len(Options2) :
        /\ Alive /\ Len(log) < MaxOps
        /\ Write(Options2[i].ty, FALSE, Options2[i].v, save2(Options2[i].ty, Options2[i].v, endian))

\* target.load_into(&mut buffer), the target holding any value of the type
\* of the next entry
LoadInto ==
    \E i \in 1..Len(Options2) :
        /\ Alive /\ next <= Len(log)
        /\ Options2[i].ty = log[next].ty
        /\ rpos' = load_into(log[next].ty, Options2[i].v, data, rpos, endian).pos
        /\ last' = [st |-> load_into(log[next].ty, Options2[i].v, data, rpos, endian).st,
                    val |-> Load(log[next].ty, data, rpos, endian),
                    idx |-> next, from |-> rpos,
                    to |-> load_into(log[next].ty, Options2[i].v, data, rpos, endian).pos]
        /\ target' = << Options2[i].v,
                        IF load_into(log[next].ty, Options2[i].v, data, rpos, endian).st = "ok"
                          THEN load_into(log[next].ty, Options2[i].v, data, rpos, endian).val
                          ELSE Options2[i].v >>
        /\ next' = next + 1
        /\ UNCHANGED <<state, cell, par>>
        /\ UNCHANGED <<data, wpos, endian, log>>

NextOption2 == SaveOption2 \/ LoadInto

SpecOption2 == Init /\ [][NextOption2]_vars

\* C30: load_into on the bytes save wrote for an Option leaves the target
\* equal to the saved value, whatever the target held, and equal to what
\* Savable::load returns for those bytes.
C30_LoadIntoRestores ==
    (last.idx > 0 /\ target # <<>>) =>
        /\ last.st = "ok"
        /\ target[2] = Entry.val
        /\ last.val = Ok(target[2], last.to)

====
